---- MODULE Spec2Model ----
(***************************************************************************)
(* A model of the oto parser and of its Zod schema generator.              *)
(*                                                                         *)
(*   SpecZod    the recursive schema generator (ZodEndpointSchema and       *)
(*              writeZodEndpointSchemaObject) over bounded Definitions      *)
(*   SpecMod    writeZodFieldModifiers over bounded fields                  *)
(*   SpecParse  Parser.Parse over bounded packages                          *)
(*                                                                         *)
(* Strings that the code takes apart are sequences of segments joined by   *)
(* dots, except after "*", "[]" and "map[string]", which are joined        *)
(* directly: <<"ext", "A">> is "ext.A", <<"*", "A">> is "*A".               *)
(***************************************************************************)
EXTENDS Integers, Sequences, FiniteSets, TLC

VARIABLES
    zdef,       \* generator: the Definition handed to the generator
    zstart,     \* generator: the object name the run was started from
    zres,       \* generator: builder text, generated set, outcome
    zphase,     \* generator: "idle" | "ready" | "done"
    mfield,     \* modifiers: the field handed to writeZodFieldModifiers
    mres,       \* modifiers: its result
    mphase,     \* modifiers: "idle" | "ready" | "done"
    pkg,        \* parser: the loaded package (declarations in scope order)
    exclude,    \* parser: Parser.ExcludeInterfaces
    p,          \* parser: the Parser's state (def, objects, outputObjects, ...)
    pphase,     \* parser: "idle" | "scan" | "done"
    ccomment,   \* comments: the comment handed to extractCommentMetadata
    cres,       \* comments: what it returned for ccomment, and for the comment it returned
    cphase      \* comments: "idle" | "ready" | "extracted" | "again"

zvars == <<zdef, zstart, zres, zphase>>
mvars == <<mfield, mres, mphase>>
pvars == <<pkg, exclude, p, pphase>>
cvars == <<ccomment, cres, cphase>>
vars == <<zdef, zstart, zres, zphase, mfield, mres, mphase, pkg, exclude, p, pphase,
          ccomment, cres, cphase>>

(***************************************************************************)
(* Bounds                                                                  *)
(***************************************************************************)
MaxDefFields == 3    \* fields in a generator Definition, over all objects
MaxCallDepth == 5    \* nesting of writeZodEndpointSchemaObject before the run counts as diverging
MaxMultiple == 3     \* nested sequence wrappers of a field type
MaxParseDepth == 4   \* nesting of parseObject before the parse counts as diverging
MaxPkgItems == 3     \* fields and methods in a parsed package, over all declarations

Range(s) == {s[i] : i \in 1..Len(s)}

(***************************************************************************)
(* Metadata values are decoded JSON values (json.Unmarshal into            *)
(* interface{}): t is the dynamic type, b a bool's value, s a string's     *)
(* text in segments ("types.String" is <<"types", "String">>), a an        *)
(* array's elements.                                                       *)
(***************************************************************************)
JBool(b) == [t |-> "bool", b |-> b, s |-> <<>>, a |-> <<>>]
JTrue == JBool(TRUE)
JFalse == JBool(FALSE)
JStr(segs) == [t |-> "string", b |-> FALSE, s |-> segs, a |-> <<>>]
JArr(elems) == [t |-> "array", b |-> FALSE, s |-> <<>>, a |-> elems]
JNull == [t |-> "null", b |-> FALSE, s |-> <<>>, a |-> <<>>]
IsBool(v) == v.t = "bool"

NoMeta == [k \in {} |-> JTrue]
HasKey(md, k) == k \in DOMAIN md

(***************************************************************************)
(* Names                                                                   *)
(***************************************************************************)
\* Segments that are written without a dot before the next one.
Wrappers == {"*", "[]", "map[string]"}

\* strings.Contains(variable, ".") then the text after the last dot.
removePackagePrefix(variable) ==
    IF Len(SelectSeq(variable, LAMBDA seg : seg \notin Wrappers)) > 1
    THEN <<variable[Len(variable)]>>
    ELSE variable

\* camelizeDown lower-cases the leading letter of a name.
camelizeDown(name) == <<"lc">> \o name

SchemaName(name) == camelizeDown(name) \o <<"Schema">>

(***************************************************************************)
(* Definition.Object                                                       *)
(***************************************************************************)
HasObject(d, name) == \E i \in 1..Len(d) : d[i].Name = name

Object(d, name) ==
    d[CHOOSE i \in 1..Len(d) : d[i].Name = name /\ \A j \in 1..(i - 1) : d[j].Name # name]

(***************************************************************************)
(* The builder's text is a sequence of written strings; a name inside it   *)
(* is kept as its segments.                                                *)
(***************************************************************************)
Tok(str) == <<str>>

Flatten(lines) ==
    LET RECURSIVE cat(_)
        cat(i) == IF i > Len(lines) THEN <<>> ELSE lines[i] \o cat(i + 1)
    IN cat(1)

\* The index of the first TRUE of a sequence of booleans, Len + 1 if none.
FirstTrue(bs) ==
    IF \E i \in 1..Len(bs) : bs[i]
    THEN CHOOSE i \in 1..Len(bs) : bs[i] /\ \A j \in 1..(i - 1) : ~bs[j]
    ELSE Len(bs) + 1

(***************************************************************************)
(* Field modifiers                                                         *)
(***************************************************************************)
ArraySuffixes(n) == [i \in 1..n |-> Tok(".array()")]

\* A mutation of writeZodFieldModifiers: optional is written before nullable.
writeZodFieldModifiersOptionalFirst(field) ==
    LET md == field.Metadata
        arr == IF field.Type.Multiple THEN ArraySuffixes(field.Type.MultipleTimes) ELSE <<>>
        nul == IF HasKey(md, "nullable") /\ md["nullable"].b THEN <<Tok(".nullable()")>> ELSE <<>>
        opt == IF HasKey(md, "optional") /\ md["optional"].b THEN <<Tok(".optional()")>> ELSE <<>>
    IN IF (HasKey(md, "nullable") /\ ~IsBool(md["nullable"]))
          \/ (HasKey(md, "optional") /\ ~IsBool(md["optional"]))
       THEN [text |-> arr, panic |-> TRUE]
       ELSE [text |-> arr \o opt \o nul, panic |-> FALSE]

\* text: the strings written; panic: a failed nullable.(bool) or optional.(bool).
writeZodFieldModifiers(field) ==
    LET md == field.Metadata
        arr == IF field.Type.Multiple THEN ArraySuffixes(field.Type.MultipleTimes) ELSE <<>>
        nul == IF HasKey(md, "nullable") /\ md["nullable"].b THEN <<Tok(".nullable()")>> ELSE <<>>
        opt == IF HasKey(md, "optional") /\ md["optional"].b THEN <<Tok(".optional()")>> ELSE <<>>
    IN IF HasKey(md, "nullable") /\ ~IsBool(md["nullable"])
       THEN [text |-> arr, panic |-> TRUE]
       ELSE IF HasKey(md, "optional") /\ ~IsBool(md["optional"])
       THEN [text |-> arr \o nul, panic |-> TRUE]
       ELSE [text |-> arr \o nul \o opt, panic |-> FALSE]

(***************************************************************************)
(* Field bodies                                                            *)
(***************************************************************************)
\* A mutation of getTypeNameForZod: a name without the prefix is written as it is.
getTypeNameForZodAnyName(fieldType) ==
    IF Len(fieldType) >= 2 /\ fieldType[1] = "types"
    THEN [text |-> <<Tok("ZodTypes.") \o Tail(fieldType)>>, panic |-> FALSE]
    ELSE [text |-> <<Tok("ZodTypes.") \o fieldType>>, panic |-> FALSE]

getTypeNameForZod(fieldType) ==
    IF Len(fieldType) >= 2 /\ fieldType[1] = "types"
    THEN [text |-> <<Tok("ZodTypes.") \o Tail(fieldType)>>, panic |-> FALSE]
    ELSE [text |-> <<>>, panic |-> TRUE]

writeZodObject(field) ==
    [text |-> <<SchemaName(removePackagePrefix(field.Type.CleanObjectName))>>, panic |-> FALSE]

\* A mutation of writeZodRecord: the element-multiplicity flag is not looked at.
writeZodRecordNoArray(d, field) ==
    [text |-> <<Tok("z.record("), Tok("z."), Tok(field.Type.Map.KeyTypeTS), Tok("(), ")>>
              \o (IF HasObject(d, field.Type.Map.ElementType)
                  THEN <<SchemaName(field.Type.Map.ElementType)>>
                  ELSE <<Tok("z."), Tok(field.Type.Map.ElementTypeTS), Tok("()")>>)
              \o <<Tok(")")>>,
     panic |-> FALSE]

writeZodRecord(d, field) ==
    [text |-> <<Tok("z.record("), Tok("z."), Tok(field.Type.Map.KeyTypeTS), Tok("(), ")>>
              \o (IF HasObject(d, field.Type.Map.ElementType)
                  THEN <<SchemaName(field.Type.Map.ElementType)>>
                  ELSE <<Tok("z."), Tok(field.Type.Map.ElementTypeTS), Tok("()")>>)
              \o (IF field.Type.Map.ElementIsMultiple THEN <<Tok(".array()")>> ELSE <<>>)
              \o <<Tok(")")>>,
     panic |-> FALSE]

\* A mutation of writeZodEnum: only the first string option is written.
writeZodEnumFirstOnly(field) ==
    LET v == field.Metadata["options"]
        strs == SelectSeq(v.a, LAMBDA o : o.t = "string")
    IN IF v.t # "array"
       THEN [text |-> <<>>, panic |-> TRUE]
       ELSE [text |-> <<Tok("z.enum([")>>
                      \o (IF strs = <<>> THEN <<>> ELSE << <<"\"">> \o strs[1].s \o <<"\"">> >>)
                      \o <<Tok("])")>>,
             panic |-> FALSE]

\* Options that are not strings are left out; a value that is no array panics. The
\* quoted options are joined by ", ".
writeZodEnum(field) ==
    LET v == field.Metadata["options"]
        strs == SelectSeq(v.a, LAMBDA o : o.t = "string")
        Quoted(i) == (IF i > 1 THEN <<Tok(", ")>> ELSE <<>>) \o << <<"\"">> \o strs[i].s \o <<"\"">> >>
    IN IF v.t # "array"
       THEN [text |-> <<>>, panic |-> TRUE]
       ELSE [text |-> <<Tok("z.enum([")>> \o Flatten([i \in 1..Len(strs) |-> Quoted(i)]) \o <<Tok("])")>>,
             panic |-> FALSE]

\* A mutation of ZodFieldBody: options are looked at before the field's type.
ZodFieldBodyOptionsFirst(d, field) ==
    LET md == field.Metadata IN
    IF HasKey(md, "options") /\ md["options"].t # "null" THEN writeZodEnum(field)
    ELSE IF field.Type.IsObject THEN writeZodObject(field)
    ELSE IF field.Type.IsMap THEN writeZodRecord(d, field)
    ELSE IF HasKey(md, "type") /\ md["type"].t = "string" THEN getTypeNameForZod(md["type"].s)
    ELSE [text |-> <<Tok("z."), Tok(field.Type.JSType), Tok("()")>>, panic |-> FALSE]

ZodFieldBody(d, field) ==
    LET md == field.Metadata IN
    IF field.Type.IsObject THEN writeZodObject(field)
    ELSE IF field.Type.IsMap THEN writeZodRecord(d, field)
    ELSE IF HasKey(md, "options") /\ md["options"].t # "null" THEN writeZodEnum(field)
    ELSE IF HasKey(md, "type") /\ md["type"].t = "string" THEN getTypeNameForZod(md["type"].s)
    ELSE [text |-> <<Tok("z."), Tok(field.Type.JSType), Tok("()")>>, panic |-> FALSE]

\* A mutation of BaseFieldKept: exclude and extend count only when they are true.
BaseFieldKeptByValue(field, objectName) ==
    /\ ~(HasKey(field.Metadata, "exclude") /\ field.Metadata["exclude"] = JTrue)
    /\ ~(HasKey(field.Metadata, "extend") /\ field.Metadata["extend"] = JTrue)
    /\ removePackagePrefix(field.Type.CleanObjectName) # objectName

\* The fields writeZodBaseObject writes a line for.
BaseFieldKept(field, objectName) ==
    /\ ~HasKey(field.Metadata, "exclude")
    /\ ~HasKey(field.Metadata, "extend")
    /\ removePackagePrefix(field.Type.CleanObjectName) # objectName

ZodBaseLine(d, field) ==
    LET body == ZodFieldBody(d, field)
        mods == writeZodFieldModifiers(field)
    IN [text |-> <<Tok("\t"), Tok(field.NameLowerSnake), Tok(": ")>>
                 \o body.text \o mods.text \o <<Tok(","), Tok("\n")>>,
        panic |-> body.panic \/ mods.panic]

\* The lines of the fields up to the first one that panics.
writeZodBaseObject(d, fields, objectName) ==
    LET kept == SelectSeq(fields, LAMBDA f : BaseFieldKept(f, objectName))
        lines == [i \in 1..Len(kept) |-> ZodBaseLine(d, kept[i])]
        stop == FirstTrue([i \in 1..Len(kept) |-> lines[i].panic])
    IN [text |-> <<Tok("z.object({"), Tok("\n")>>
                 \o Flatten([i \in 1..(stop - 1) |-> lines[i].text])
                 \o (IF stop > Len(kept) THEN <<Tok("})")>> ELSE <<>>),
        panic |-> stop <= Len(kept)]

(***************************************************************************)
(* Recursive and extended fields                                           *)
(***************************************************************************)
getRecursiveFields(objectFields, objectName) ==
    SelectSeq(objectFields,
              LAMBDA f : f.Type.IsObject /\ removePackagePrefix(f.Type.CleanObjectName) = objectName)

getExtendedFields(objectFields) ==
    LET ext == SelectSeq(objectFields, LAMBDA f : HasKey(f.Metadata, "extend"))
    IN [i \in 1..Len(ext) |-> SchemaName(removePackagePrefix(ext[i].Type.CleanObjectName))]

getMergeString(extendedFields) ==
    Flatten([i \in 1..Len(extendedFields) |-> <<Tok(".merge("), extendedFields[i], Tok(")")>>])

RecursiveTypeLine(field, object) ==
    LET md == field.Metadata
        opt == IF HasKey(md, "optional") /\ md["optional"].b THEN <<Tok("?")>> ELSE <<>>
        arr == IF field.Type.Multiple THEN [i \in 1..field.Type.MultipleTimes |-> Tok("[]")] ELSE <<>>
        nul == IF HasKey(md, "nullable") /\ md["nullable"].b THEN <<Tok(" | null")>> ELSE <<>>
    IN [text |-> <<Tok("\t"), Tok(field.NameLowerSnake)>> \o opt
                 \o <<Tok(": "), object.Name \o <<"Recursive">>>> \o arr \o nul
                 \o <<Tok(";"), Tok("\n")>>,
        panic |-> \/ (HasKey(md, "optional") /\ ~IsBool(md["optional"]))
                  \/ (HasKey(md, "nullable") /\ ~IsBool(md["nullable"]))]

writeRecursiveType(recursiveFields, object) ==
    LET lines == [i \in 1..Len(recursiveFields) |-> RecursiveTypeLine(recursiveFields[i], object)]
        stop == FirstTrue([i \in 1..Len(recursiveFields) |-> lines[i].panic])
    IN [text |-> <<Tok("type "), object.Name \o <<"Recursive">>, Tok(" = z.infer<typeof "),
                   camelizeDown(object.Name) \o <<"BaseSchema">>, Tok("> & {"), Tok("\n")>>
                 \o Flatten([i \in 1..(stop - 1) |-> lines[i].text])
                 \o (IF stop > Len(recursiveFields) THEN <<Tok("};")>> ELSE <<>>),
        panic |-> stop <= Len(recursiveFields)]

ExtendedRecursiveLine(field, objectName) ==
    LET mods == writeZodFieldModifiers(field)
    IN [text |-> <<Tok("\n"), Tok("\t"), Tok(field.NameLowerSnake), Tok(": "), Tok("z.lazy(() => "),
                   SchemaName(objectName), Tok(")")>>
                 \o mods.text \o <<Tok(","), Tok("\n")>>,
        panic |-> mods.panic]

writeExtendedRecursiveZodObject(fields, objectName) ==
    LET lines == [i \in 1..Len(fields) |-> ExtendedRecursiveLine(fields[i], objectName)]
        stop == FirstTrue([i \in 1..Len(fields) |-> lines[i].panic])
    IN [text |-> <<Tok("export const "), SchemaName(objectName), Tok(": z.ZodType<"),
                   objectName \o <<"Recursive">>, Tok("> = "),
                   camelizeDown(objectName) \o <<"BaseSchema">>, Tok(".extend({")>>
                 \o Flatten([i \in 1..(stop - 1) |-> lines[i].text])
                 \o (IF stop > Len(fields) THEN <<Tok("})")>> ELSE <<>>),
        panic |-> stop <= Len(fields)]

(***************************************************************************)
(* writeZodEndpointSchemaObject                                            *)
(*                                                                         *)
(* A run's state: out, the builder as a sequence of declarations (kind     *)
(* "header" | "base" | "type" | "public", the object, the text);           *)
(* generated, the set of names already generated; panic, the run was       *)
(* aborted by a panic; overflow, the calls nested deeper than              *)
(* MaxCallDepth; visits, one record per call in call order (the name       *)
(* asked for, whether the call returned at the already-generated check,    *)
(* and the length of out when it was entered and when it returned).        *)
(***************************************************************************)
ZodFresh == [out |-> <<>>, generated |-> {}, panic |-> FALSE, overflow |-> FALSE, visits |-> <<>>]

NewLines2 == <<Tok("\n"), Tok("\n")>>

\* A mutation of AlreadyGenerated: the memo is never consulted.
AlreadyGeneratedNever(generated, objectName) == FALSE

AlreadyGenerated(generated, objectName) == objectName \in generated

\* A mutation of MarkGenerated: the name is not recorded.
MarkGeneratedNot(generated, objectName) == generated

MarkGenerated(generated, objectName) == generated \cup {objectName}

\* A mutation of FieldDependencies: map elements are not followed.
FieldDependenciesNoMap(d, field) ==
    IF HasKey(field.Metadata, "exclude") THEN <<>>
    ELSE IF field.Type.IsObject THEN <<field.Type.CleanObjectName>> ELSE <<>>

\* The names writeZodEndpointSchemaObject calls itself with for one field, in order.
FieldDependencies(d, field) ==
    IF HasKey(field.Metadata, "exclude") THEN <<>>
    ELSE (IF field.Type.IsObject THEN <<field.Type.CleanObjectName>> ELSE <<>>)
         \o (IF field.Type.IsMap /\ HasObject(d, field.Type.Map.ElementType)
             THEN <<field.Type.Map.ElementType>> ELSE <<>>)

\* The declarations written for an object once its dependencies are written.
ZodObjectDecls(d, object, objectName) ==
    LET recursiveFields == getRecursiveFields(object.Fields, objectName)
        extendedFields == getExtendedFields(object.Fields)
        base == writeZodBaseObject(d, object.Fields, objectName)
        typ == writeRecursiveType(recursiveFields, object)
        extd == writeExtendedRecursiveZodObject(recursiveFields, object.Name)
        mergeString == IF Len(extendedFields) > 0 THEN getMergeString(extendedFields) ELSE <<>>
        baseDecl == [kind |-> "base", obj |-> objectName,
                     text |-> <<Tok("const "), camelizeDown(object.Name) \o <<"BaseSchema">>, Tok(" = ")>>
                              \o base.text \o <<Tok(";")>> \o NewLines2]
        typeDecl == [kind |-> "type", obj |-> objectName, text |-> typ.text \o NewLines2]
        publicText == IF Len(recursiveFields) > 0
                      THEN extd.text
                      ELSE <<Tok("export const "), SchemaName(object.Name), Tok(" = ")>> \o base.text
        publicDecl == [kind |-> "public", obj |-> objectName,
                       text |-> publicText \o mergeString \o <<Tok(";")>> \o NewLines2]
    IN IF Len(recursiveFields) > 0
       THEN IF base.panic THEN [decls |-> <<>>, panic |-> TRUE]
            ELSE IF typ.panic THEN [decls |-> <<baseDecl>>, panic |-> TRUE]
            ELSE IF extd.panic THEN [decls |-> <<baseDecl, typeDecl>>, panic |-> TRUE]
            ELSE [decls |-> <<baseDecl, typeDecl, publicDecl>>, panic |-> FALSE]
       ELSE IF base.panic THEN [decls |-> <<>>, panic |-> TRUE]
            ELSE [decls |-> <<publicDecl>>, panic |-> FALSE]

RECURSIVE writeZodEndpointSchemaObject(_, _, _, _)
RECURSIVE ZodCallAll(_, _, _, _, _)

\* The calls of the field loop, in order; a panic or an overflow ends the run.
ZodCallAll(d, names, i, st, depth) ==
    IF i > Len(names) \/ st.panic \/ st.overflow THEN st
    ELSE ZodCallAll(d, names, i + 1, writeZodEndpointSchemaObject(d, names[i], st, depth), depth)

writeZodEndpointSchemaObject(d, name, st, depth) ==
    LET objectName == removePackagePrefix(name)
        k == Len(st.visits) + 1
        visit == [obj |-> objectName, skipped |-> FALSE, before |-> Len(st.out), after |-> Len(st.out)]
    IN IF depth > MaxCallDepth THEN [st EXCEPT !.overflow = TRUE]
       ELSE IF AlreadyGenerated(st.generated, objectName)
       THEN [st EXCEPT !.visits = Append(@, [visit EXCEPT !.skipped = TRUE])]
       ELSE LET st1 == [st EXCEPT !.generated = MarkGenerated(@, objectName), !.visits = Append(@, visit)]
            IN IF ~HasObject(d, objectName) THEN [st1 EXCEPT !.panic = TRUE]
               ELSE LET object == Object(d, objectName)
                        deps == Flatten([i \in 1..Len(object.Fields) |->
                                            FieldDependencies(d, object.Fields[i])])
                        st2 == ZodCallAll(d, deps, 1, st1, depth + 1)
                        own == ZodObjectDecls(d, object, objectName)
                    IN IF st2.panic \/ st2.overflow THEN st2
                       ELSE [st2 EXCEPT !.out = @ \o own.decls,
                                        !.panic = own.panic,
                                        !.visits[k].after = Len(st2.out) + Len(own.decls)]

ZodEndpointSchema(d) ==
    LET header == [kind |-> "header", obj |-> <<>>,
                   text |-> <<Tok("import { z } from \"zod\";"), Tok("\n"),
                              Tok("import ZodTypes from \"./zod_types.gen\";")>> \o NewLines2]
        names == [i \in 1..Len(d) |-> d[i].Name]
    IN ZodCallAll(d, names, 1, [ZodFresh EXCEPT !.out = <<header>>], 1)

(***************************************************************************)
(* Fields as the parser's parseFieldType fills them in                     *)
(***************************************************************************)
NoMap == [KeyTypeTS |-> "", ElementType |-> <<>>, ElementTypeTS |-> "", ElementIsMultiple |-> FALSE]

\* A field of a struct type: clean is "A" or "ext.A".
ObjectField(clean, md) ==
    [NameLowerSnake |-> "f",
     Type |-> [IsObject |-> TRUE, IsMap |-> FALSE, CleanObjectName |-> clean, Multiple |-> FALSE,
               MultipleTimes |-> 0, JSType |-> "object", Map |-> NoMap],
     Metadata |-> md]

\* A field of type []T for a struct type T.
ObjectSliceField(clean, md) ==
    [ObjectField(clean, md) EXCEPT !.Type.Multiple = TRUE, !.Type.MultipleTimes = 1]

\* A field of type map[string]elem.
MapField(elem, md) ==
    [NameLowerSnake |-> "f",
     Type |-> [IsObject |-> FALSE, IsMap |-> TRUE, CleanObjectName |-> <<"map[string]">> \o elem,
               Multiple |-> FALSE, MultipleTimes |-> 0, JSType |-> "map",
               Map |-> [KeyTypeTS |-> "string", ElementType |-> elem, ElementTypeTS |-> "elem",
                        ElementIsMultiple |-> FALSE]],
     Metadata |-> md]

\* A field of type string.
StringField(md) ==
    [NameLowerSnake |-> "f",
     Type |-> [IsObject |-> FALSE, IsMap |-> FALSE, CleanObjectName |-> <<"string">>, Multiple |-> FALSE,
               MultipleTimes |-> 0, JSType |-> "string", Map |-> NoMap],
     Metadata |-> md]

FieldNames == <<"f1", "f2", "f3", "f4", "f5", "f6">>

\* The fields of an object, named by their position.
NameFields(fields) == [i \in 1..Len(fields) |-> [fields[i] EXCEPT !.NameLowerSnake = FieldNames[i]]]

(***************************************************************************)
(* SpecZod: the generator over bounded Definitions                         *)
(***************************************************************************)
ZodObjectNames == << <<"A">>, <<"B">>, <<"C">> >>
ZodMissing == <<"Gone">>

Excluded == [k \in {"exclude"} |-> JTrue]
Extended == [k \in {"extend"} |-> JTrue]
ExcludedExtended == [k \in {"exclude", "extend"} |-> JTrue]

ZodFields ==
    {ObjectField(t, NoMeta) : t \in Range(ZodObjectNames) \cup {ZodMissing, <<"ext", "A">>}}
    \cup {ObjectSliceField(t, NoMeta) : t \in Range(ZodObjectNames)}
    \cup {ObjectField(t, Excluded) : t \in Range(ZodObjectNames)}
    \cup {ObjectField(t, Extended) : t \in Range(ZodObjectNames)}
    \cup {ObjectField(ZodObjectNames[2], ExcludedExtended)}
    \cup {MapField(t, NoMeta) : t \in Range(ZodObjectNames)}
    \cup {StringField(NoMeta)}

ZodFieldCounts ==
    {c \in [1..3 -> 0..MaxDefFields] : c[1] + c[2] + c[3] <= MaxDefFields}

\* The generator, the modifier writer and the parser before they are given anything.
MIdle == mfield = <<>> /\ mres = <<>> /\ mphase = "idle"
PIdle == pkg = <<>> /\ exclude = {} /\ p = <<>> /\ pphase = "idle"
ZIdle == zdef = <<>> /\ zstart = <<>> /\ zres = <<>> /\ zphase = "idle"
CIdle == ccomment = <<>> /\ cres = <<>> /\ cphase = "idle"

ZodInit ==
    /\ \E c \in ZodFieldCounts :
         \E fa \in [1..c[1] -> ZodFields], fb \in [1..c[2] -> ZodFields], fc \in [1..c[3] -> ZodFields] :
            zdef = << [Name |-> ZodObjectNames[1], Fields |-> NameFields(fa)],
                      [Name |-> ZodObjectNames[2], Fields |-> NameFields(fb)],
                      [Name |-> ZodObjectNames[3], Fields |-> NameFields(fc)] >>
    /\ zstart = <<>>
    /\ zres = ZodFresh
    /\ zphase = "ready"
    /\ MIdle /\ PIdle /\ CIdle

\* ZodEndpointSchema(): every object of the Definition, in order.
ZodSchemaAll ==
    /\ zphase = "ready"
    /\ zres' = ZodEndpointSchema(zdef)
    /\ zstart' = <<>>
    /\ zphase' = "all"
    /\ UNCHANGED zdef

\* writeZodEndpointSchemaObject(start, new builder, empty generated).
ZodSchemaFrom(i) ==
    /\ zphase = "ready"
    /\ zres' = writeZodEndpointSchemaObject(zdef, zdef[i].Name, ZodFresh, 1)
    /\ zstart' = zdef[i].Name
    /\ zphase' = "one"
    /\ UNCHANGED zdef

ZodNext ==
    \/ ZodSchemaAll /\ UNCHANGED <<mvars, pvars, cvars>>
    \/ \E i \in 1..Len(zdef) : ZodSchemaFrom(i) /\ UNCHANGED <<mvars, pvars, cvars>>


SpecZod == ZodInit /\ [][ZodNext]_vars

(***************************************************************************)
(* What the generator's claims speak of                                    *)
(***************************************************************************)
ZodNames(d) == {d[i].Name : i \in 1..Len(d)}

Positions(out, kind, X) == {i \in 1..Len(out) : out[i].kind = kind /\ out[i].obj = X}

\* The objects a field refers to: its struct type, its map element if that names an object.
FieldTargets(d, field) ==
    (IF field.Type.IsObject THEN {removePackagePrefix(field.Type.CleanObjectName)} ELSE {})
    \cup (IF field.Type.IsMap /\ HasObject(d, field.Type.Map.ElementType)
          THEN {field.Type.Map.ElementType} ELSE {})

\* The objects X refers to; with all = FALSE only through fields without exclude metadata.
Refs(d, X, all) ==
    IF ~HasObject(d, X) THEN {}
    ELSE UNION {FieldTargets(d, f) :
                  f \in {g \in Range(Object(d, X).Fields) : all \/ ~HasKey(g.Metadata, "exclude")}}

RECURSIVE ReachN(_, _, _, _)
ReachN(d, S, all, n) ==
    IF n = 0 THEN S ELSE ReachN(d, S \cup UNION {Refs(d, X, all) : X \in S}, all, n - 1)

\* X and everything X transitively refers to.
Reach(d, X, all) == ReachN(d, {X}, all, Len(d) + 1)

\* The struct-typed fields of X that name Y.
ObjectFieldsTo(d, X, Y) ==
    {f \in Range(Object(d, X).Fields) :
        f.Type.IsObject /\ removePackagePrefix(f.Type.CleanObjectName) = Y}

SelfReferential(d, X) == ObjectFieldsTo(d, X, X) # {}

ZodReturned == zphase \in {"one", "all"} /\ ~zres.panic /\ ~zres.overflow

\* C1 as stated: one public schema for the start and for everything it refers to through
\* any field, and a referenced object's schema always before the referring object's.
C1_AsStated ==
    (zphase = "one" /\ ~zres.panic) =>
        /\ ~zres.overflow
        /\ \A X \in Reach(zdef, zstart, TRUE) : Cardinality(Positions(zres.out, "public", X)) = 1
        /\ \A X \in Reach(zdef, zstart, TRUE) : \A Y \in Refs(zdef, X, TRUE) \ {X} :
              \A i \in Positions(zres.out, "public", X) :
                 \E j \in Positions(zres.out, "public", Y) : j < i

\* C1 (amended): when generation from a starting object returns, the output holds exactly
\* one public schema for the start and for every object it transitively refers to through
\* struct-typed fields or map elements without exclude metadata, none for any other
\* object, and where X has such a field to a different object Y that does not
\* transitively refer back to X, the schema of Y comes before the schema of X.
C1_DependenciesFirst ==
    (zphase = "one" /\ ~zres.panic) =>
        /\ ~zres.overflow
        /\ \A X \in Reach(zdef, zstart, FALSE) : Cardinality(Positions(zres.out, "public", X)) = 1
        /\ \A i \in 1..Len(zres.out) : zres.out[i].obj \in Reach(zdef, zstart, FALSE)
        /\ \A X \in Reach(zdef, zstart, FALSE) : \A Y \in Refs(zdef, X, FALSE) \ {X} :
              X \notin Reach(zdef, Y, FALSE) =>
                 \A i \in Positions(zres.out, "public", X) :
                    \E j \in Positions(zres.out, "public", Y) : j < i

\* A returned run over three objects with a one-way reference and a reference cycle.
C1_Witness ==
    /\ zphase = "one" /\ ~zres.panic
    /\ Cardinality(Reach(zdef, zstart, FALSE)) = 3
    /\ \E X \in Reach(zdef, zstart, FALSE) : \E Y \in Refs(zdef, X, FALSE) \ {X} :
          X \notin Reach(zdef, Y, FALSE)
    /\ \E X \in Reach(zdef, zstart, FALSE) : \E Y \in Refs(zdef, X, FALSE) \ {X} :
          X \in Reach(zdef, Y, FALSE)

\* C2: every generation run ends, and in a run that returns each generated object with a
\* struct-typed field of its own type has exactly one base schema, one recursive type
\* and one public schema, and was entered exactly once.
C2_SelfReference ==
    /\ zphase \in {"one", "all"} => ~zres.overflow
    /\ ZodReturned =>
         \A X \in zres.generated :
            SelfReferential(zdef, X) =>
               /\ Cardinality(Positions(zres.out, "base", X)) = 1
               /\ Cardinality(Positions(zres.out, "type", X)) = 1
               /\ Cardinality(Positions(zres.out, "public", X)) = 1
               /\ Cardinality({k \in 1..Len(zres.visits) :
                                 zres.visits[k].obj = X /\ ~zres.visits[k].skipped}) = 1

\* A returned run from an object with a sequence-of-itself field, revisited once.
C2_Witness ==
    /\ zphase = "one" /\ ZodReturned
    /\ \E f \in ObjectFieldsTo(zdef, zstart, zstart) : f.Type.Multiple /\ f.Type.MultipleTimes = 1
    /\ \E k \in 1..Len(zres.visits) : zres.visits[k].obj = zstart /\ zres.visits[k].skipped
    /\ Positions(zres.out, "base", zstart) # {}

\* Two distinct objects that each have a struct-typed field of the other's type.
\* With all = FALSE the two fields carry no exclude metadata.
Mutual(d, A, B, all) ==
    /\ A # B /\ HasObject(d, A) /\ HasObject(d, B)
    /\ \E f \in ObjectFieldsTo(d, A, B) : all \/ ~HasKey(f.Metadata, "exclude")
    /\ \E f \in ObjectFieldsTo(d, B, A) : all \/ ~HasKey(f.Metadata, "exclude")

\* A call for a name an earlier call was made for returns at once, writing nothing.
RevisitsSkip(visits) ==
    \A j \in 1..Len(visits) :
       (\E i \in 1..(j - 1) : visits[i].obj = visits[j].obj) =>
          visits[j].skipped /\ visits[j].after = visits[j].before

MutualOnce(all) ==
    (zphase = "one" /\ ~zres.panic) =>
        \A B \in ZodNames(zdef) :
           Mutual(zdef, zstart, B, all) =>
              /\ ~zres.overflow
              /\ Cardinality(Positions(zres.out, "public", zstart)) = 1
              /\ Cardinality(Positions(zres.out, "public", B)) = 1
              /\ RevisitsSkip(zres.visits)

\* C3 as stated: any two objects with a field of each other's type.
C3_AsStated == MutualOnce(TRUE)

\* C3 (amended): for two distinct objects A and B where A has a field of type B and B a
\* field of type A, neither flagged exclude, a run started from either that returns has
\* written the public schema of each exactly once, and every call for an already
\* generated name returned without writing.
C3_MutualOnce == MutualOnce(FALSE)

\* A returned run from one of two mutually referring objects, the start revisited.
C3_Witness ==
    /\ zphase = "one" /\ ZodReturned
    /\ \E B \in ZodNames(zdef) : Mutual(zdef, zstart, B, FALSE)
    /\ \E k \in 2..Len(zres.visits) : zres.visits[k].obj = zstart /\ zres.visits[k].skipped

(***************************************************************************)
(* SpecMod: writeZodFieldModifiers over bounded fields                     *)
(***************************************************************************)
\* Multiple and len(MultipleTimes) as parseFieldType leaves them: unset, set by N
\* sequence wrappers, or set by a pointer to a sequence (which appends nothing).
Multiplicities ==
    {[Multiple |-> FALSE, MultipleTimes |-> 0], [Multiple |-> TRUE, MultipleTimes |-> 0]}
    \cup {[Multiple |-> TRUE, MultipleTimes |-> n] : n \in 1..MaxMultiple}

\* Absent, true, false, or a JSON value that is no boolean.
FlagValues == {JNull, JTrue, JFalse, JStr(<<"yes">>)}

\* The metadata with nullable and optional set as given; JNull stands for an absent key.
FlagMeta(nullable, optional) ==
    [k \in ({"nullable"} \ (IF nullable = JNull THEN {"nullable"} ELSE {}))
           \cup ({"optional"} \ (IF optional = JNull THEN {"optional"} ELSE {})) |->
        IF k = "nullable" THEN nullable ELSE optional]

ModFields ==
    {[f EXCEPT !.Type.Multiple = m.Multiple, !.Type.MultipleTimes = m.MultipleTimes,
               !.NameLowerSnake = "f1"] :
        f \in {StringField(FlagMeta(n, o)) : n \in FlagValues, o \in FlagValues}
              \cup {ObjectField(<<"A">>, FlagMeta(n, o)) : n \in FlagValues, o \in FlagValues},
        m \in Multiplicities}

ModInit ==
    /\ mfield \in ModFields
    /\ mres = [text |-> <<>>, panic |-> FALSE]
    /\ mphase = "ready"
    /\ ZIdle /\ PIdle /\ CIdle

\* writeZodFieldModifiers(field, new builder).
ModWrite ==
    /\ mphase = "ready"
    /\ mres' = writeZodFieldModifiers(mfield)
    /\ mphase' = "modifiers"
    /\ UNCHANGED mfield

\* writeExtendedRecursiveZodObject for the one field: the modifiers after z.lazy(...).
ModWriteLazy ==
    /\ mphase = "ready"
    /\ mres' = writeExtendedRecursiveZodObject(<<mfield>>, <<"A">>)
    /\ mphase' = "lazy"
    /\ UNCHANGED mfield

ModNext ==
    \/ ModWrite /\ UNCHANGED <<zvars, pvars, cvars>>
    \/ ModWriteLazy /\ UNCHANGED <<zvars, pvars, cvars>>

SpecMod == ModInit /\ [][ModNext]_vars

FlagTrue(field, key) == HasKey(field.Metadata, key) /\ field.Metadata[key] = JTrue

Occurrences(text, str) == {i \in 1..Len(text) : text[i] = Tok(str)}

\* C4: what writeZodFieldModifiers writes when it returns is N array suffixes, N the
\* field's multiplicity depth, then the nullable suffix iff nullable is true, then the
\* optional suffix iff optional is true, and nothing else.
C4_ModifierOrder ==
    (mphase = "modifiers" /\ ~mres.panic) =>
        LET N == mfield.Type.MultipleTimes
            text == mres.text
        IN /\ Occurrences(text, ".array()") = 1..N
           /\ (Occurrences(text, ".nullable()") # {}) <=> FlagTrue(mfield, "nullable")
           /\ (Occurrences(text, ".optional()") # {}) <=> FlagTrue(mfield, "optional")
           /\ Occurrences(text, ".nullable()") \subseteq {N + 1}
           /\ \A i \in Occurrences(text, ".optional()") :
                 i = Len(text) /\ i = N + 1 + Cardinality(Occurrences(text, ".nullable()"))
           /\ Len(text) = N + Cardinality(Occurrences(text, ".nullable()"))
                            + Cardinality(Occurrences(text, ".optional()"))

\* A field of depth two with both flags true, written.
C4_Witness ==
    /\ mphase = "modifiers" /\ ~mres.panic
    /\ mfield.Type.MultipleTimes = 2
    /\ FlagTrue(mfield, "nullable") /\ FlagTrue(mfield, "optional")
    /\ Len(mres.text) = 4

(***************************************************************************)
(* The parser: resolved types as packages.Load hands them over             *)
(*                                                                         *)
(* A type is slices leading sequence wrappers, then an optional pointer    *)
(* (ptr), under it an optional sequence (ptrSlice), then the base: a       *)
(* named struct type of package pkg, an anonymous struct ("anon") or a     *)
(* basic type.                                                             *)
(***************************************************************************)
LocalPkg == "p"
ExtPkg == "ext"
PkgPath(pkgName) == IF pkgName = LocalPkg THEN "example.com/p" ELSE "example.com/ext"

Type(slices, ptr, ptrSlice, kind, pkgName, name) ==
    [slices |-> slices, ptr |-> ptr, ptrSlice |-> ptrSlice, kind |-> kind, pkg |-> pkgName, name |-> name]

Named(pkgName, name) == Type(0, FALSE, FALSE, "named", pkgName, name)
SliceOf(t) == [t EXCEPT !.slices = @ + 1]
PointerTo(t) == [t EXCEPT !.ptr = TRUE]
PointerToSliceOf(t) == [t EXCEPT !.ptr = TRUE, !.ptrSlice = TRUE]
Basic(name) == Type(0, FALSE, FALSE, "basic", LocalPkg, name)
AnonStruct == Type(0, FALSE, FALSE, "anon", LocalPkg, "struct{}")

\* types.TypeString of the base type; qualified: with the resolver that prefixes
\* the name of any package other than the parsed one.
BaseString(t, qualified) ==
    IF t.kind = "named" /\ qualified /\ t.pkg # LocalPkg THEN <<t.pkg, t.name>> ELSE <<t.name>>

\* types.TypeString of originalTyp, the type under its leading sequence wrappers.
OriginalString(t, qualified) ==
    (IF t.ptr THEN <<"*">> ELSE <<>>) \o (IF t.ptr /\ t.ptrSlice THEN <<"[]">> ELSE <<>>)
    \o BaseString(t, qualified)

ZeroFieldType ==
    [TypeID |-> <<>>, TypeName |-> <<>>, ObjectName |-> <<>>, CleanObjectName |-> <<>>,
     Multiple |-> FALSE, MultipleTimes |-> 0, Package |-> "", IsObject |-> FALSE, IsMap |-> FALSE,
     JSType |-> "", Map |-> NoMap]

\* The names, identities and primitive name parseFieldType fills in at its end.
ResolvedFieldType(t) ==
    [TypeID |-> <<IF t.kind = "named" THEN PkgPath(t.pkg) ELSE PkgPath(LocalPkg)>>
                \o OriginalString(t, FALSE),
     TypeName |-> OriginalString(t, TRUE),
     ObjectName |-> OriginalString(t, FALSE),
     CleanObjectName |-> BaseString(t, TRUE),
     Multiple |-> t.slices > 0 \/ (t.ptr /\ t.ptrSlice),
     MultipleTimes |-> t.slices,
     Package |-> IF t.kind = "named" /\ t.pkg # LocalPkg THEN PkgPath(t.pkg) ELSE "",
     IsObject |-> t.kind = "named",
     IsMap |-> FALSE,
     JSType |-> IF t.kind = "named" THEN "object" ELSE t.name,
     Map |-> NoMap]

(***************************************************************************)
(* A package is its scope in name order: declarations                      *)
(* [name, kind "struct" | "interface", fields, methods]; a field is        *)
(* [name, typ, exported, tag], tag one of "none", "json" (a well-formed    *)
(* json tag naming the field) and "bad" (a tag structtag.Parse rejects);   *)
(* a method is [name, params, results].                                    *)
(***************************************************************************)
\* The struct type ext.A of the imported package: one string field.
ExtFields == << [name |-> "Value", typ |-> Basic("string"), exported |-> TRUE, tag |-> "none"] >>

Decl(pk, name) == pk[CHOOSE i \in 1..Len(pk) : pk[i].name = name]

\* The fields of the struct a named type stands for.
StructFields(pk, o) == IF o.pkg = LocalPkg THEN Decl(pk, o.name).fields ELSE ExtFields

(***************************************************************************)
(* Parser state: Services and Objects of p.def; objects, the names         *)
(* marked as parsed; outputObjects; excludedObjectsTypeIDs; err, the       *)
(* error Parse returns (<<>> for nil); overflow, the recursion never         *)
(* returned; next, the index of the next declaration.  parsed is the       *)
(* Objects list before pruning, declared the Services list before the     *)
(* sort, skipped the names whose registration                              *)
(* returned at the already-parsed check, dropped the errors of             *)
(* parseObject that Parse did not look at.                                 *)
(***************************************************************************)
ParserFresh ==
    [Services |-> <<>>, Objects |-> <<>>, objects |-> {}, outputObjects |-> {},
     excludedObjectsTypeIDs |-> {}, err |-> <<>>, overflow |-> FALSE, next |-> 1,
     parsed |-> <<>>, declared |-> <<>>, skipped |-> {}, dropped |-> {}]

\* An error is the chain of its messages, outermost first; <<>> is nil.
NestedStructs == "nested structs not supported (create another type instead)"
InvalidSignature == "invalid method signature: expected Method(MethodRequest) MethodResponse"
MustBeExported == "must be exported"
BadTag == "bad syntax for struct tag"

\* snakeDown and the name a json tag gives a field, as lower-case renderings of the name.
snakeDown(name) == "snake:" \o name
JSONTagName(name) == "json:" \o name

\* p.objects[obj.Name] found.
AlreadyParsed(st, o) == o.name \in st.objects

\* A mutation of ArityOK: two or more are let through.
ArityOKAtLeastOne(n) == n >= 1

\* inputParams.Len() != 1, outputParams.Len() != 1.
ArityOK(n) == n = 1

\* The default example of parseField for a field without example metadata.
DefaultExample(ftype) ==
    IF ftype.IsObject /\ Len(ftype.TypeName) > 0 /\ ftype.TypeName[1] = "*" THEN <<"{}">>
    ELSE LET ex == IF ftype.TypeName = <<"string">> THEN <<"text">> ELSE <<"nil">>
         IN IF ftype.Multiple THEN <<"[">> \o ex \o <<"]">> ELSE ex

\* A mutation of Registers: a struct behind a pointer is registered as well.
RegistersThroughPointers(t) == t.kind = "named"

\* A named struct type that is not behind a pointer: parseFieldType calls parseObject.
Registers(t) == t.kind = "named" /\ ~t.ptr

\* The value of a call handed to what follows it: K applied to the value v.
Bind(v, K(_)) == CHOOSE result \in {K(x) : x \in {v}} : TRUE

RECURSIVE parseObject(_, _, _, _)
RECURSIVE parseFieldType(_, _, _, _)
RECURSIVE parseFields(_, _, _, _, _, _)

\* [st, ftype, err]: resolve the type, registering the struct it names.
parseFieldType(pk, st, t, depth) ==
    LET multiple == t.slices > 0 \/ (t.ptr /\ t.ptrSlice)
        partial == [ZeroFieldType EXCEPT !.Multiple = multiple, !.MultipleTimes = t.slices]
        Resolve(reg) ==
            IF reg.st.overflow THEN [st |-> reg.st, ftype |-> partial, err |-> <<>>]
            ELSE IF reg.err # <<>> THEN [st |-> reg.st, ftype |-> partial, err |-> reg.err]
            ELSE IF t.kind = "anon"
            THEN [st |-> reg.st, ftype |-> partial, err |-> <<NestedStructs>>]
            ELSE [st |-> reg.st, ftype |-> ResolvedFieldType(t), err |-> <<>>]
    IN IF Registers(t)
       THEN Bind(parseObject(pk, st, [pkg |-> t.pkg, name |-> t.name], depth), Resolve)
       ELSE Resolve([st |-> st, err |-> <<>>])

\* [st, fields, err]: the field loop of parseObject from field i on.
parseFields(pk, st, vars_, i, fields, depth) ==
    LET Rest(r) ==
            LET field == [Name |-> vars_[i].name,
                          NameLowerSnake |-> IF vars_[i].tag = "json" THEN JSONTagName(vars_[i].name)
                                             ELSE snakeDown(vars_[i].name),
                          Type |-> r.ftype, OmitEmpty |-> FALSE, Metadata |-> NoMeta,
                          Example |-> DefaultExample(r.ftype)]
            IN IF r.st.overflow THEN [st |-> r.st, fields |-> fields, err |-> <<>>]
               ELSE IF r.err # <<>>
               THEN [st |-> r.st, fields |-> fields, err |-> <<"parse type">> \o r.err]
               ELSE IF vars_[i].tag = "bad"
               THEN [st |-> r.st, fields |-> fields, err |-> <<"parse field tag", BadTag>>]
               ELSE parseFields(pk, r.st, vars_, i + 1, Append(fields, field), depth)
    IN IF i > Len(vars_) THEN [st |-> st, fields |-> fields, err |-> <<>>]
       ELSE IF ~vars_[i].exported
       THEN [st |-> st, fields |-> fields, err |-> <<MustBeExported>>]
       ELSE Bind(parseFieldType(pk, st, vars_[i].typ, depth), Rest)

\* [st, err]: parse the struct o = [pkg, name] and add it to the Definition.
parseObject(pk, st, o, depth) ==
    LET Add(r) ==
            LET obj == [TypeID |-> <<PkgPath(o.pkg), o.name>>, Name |-> <<o.name>>,
                        Imported |-> o.pkg # LocalPkg, Fields |-> r.fields]
            IN IF r.st.overflow \/ r.err # <<>> THEN [st |-> r.st, err |-> r.err]
               ELSE [st |-> [r.st EXCEPT !.Objects = Append(@, obj), !.objects = @ \cup {o.name}],
                     err |-> <<>>]
    IN IF depth > MaxParseDepth THEN [st |-> [st EXCEPT !.overflow = TRUE], err |-> <<>>]
       ELSE IF AlreadyParsed(st, o)
       THEN [st |-> [st EXCEPT !.skipped = @ \cup {o.name}], err |-> <<>>]
       ELSE Bind(parseFields(pk, st, StructFields(pk, o), 1, <<>>, depth + 1), Add)

\* [st, method, err]
parseMethod(pk, st, m) ==
    LET zero == [Name |-> m.name, InputObject |-> ZeroFieldType, OutputObject |-> ZeroFieldType]
        Output(in_) ==
            LET withInput == [zero EXCEPT !.InputObject = in_.ftype]
                Record(out) ==
                    IF out.st.overflow THEN [st |-> out.st, method |-> zero, err |-> <<>>]
                    ELSE IF out.err # <<>>
                    THEN [st |-> out.st, method |-> withInput,
                          err |-> <<"parse output object type">> \o out.err]
                    ELSE [st |-> [out.st EXCEPT !.outputObjects = @ \cup {out.ftype.TypeName}],
                          method |-> [withInput EXCEPT !.OutputObject = out.ftype],
                          err |-> <<>>]
            IN IF in_.st.overflow THEN [st |-> in_.st, method |-> zero, err |-> <<>>]
               ELSE IF in_.err # <<>>
               THEN [st |-> in_.st, method |-> zero,
                     err |-> <<"parse input object type">> \o in_.err]
               ELSE IF ~ArityOK(Len(m.results))
               THEN [st |-> in_.st, method |-> withInput, err |-> <<InvalidSignature>>]
               ELSE Bind(parseFieldType(pk, in_.st, m.results[1], 1), Record)
    IN IF ~ArityOK(Len(m.params)) THEN [st |-> st, method |-> zero, err |-> <<InvalidSignature>>]
       ELSE Bind(parseFieldType(pk, st, m.params[1], 1), Output)

RECURSIVE parseMethods(_, _, _, _, _)
\* [st, methods, err]: the method loop of parseService from method i on.
parseMethods(pk, st, ms, i, methods) ==
    LET Rest(r) ==
            IF r.st.overflow \/ r.err # <<>> THEN [st |-> r.st, methods |-> methods, err |-> r.err]
            ELSE parseMethods(pk, r.st, ms, i + 1, Append(methods, r.method))
    IN IF i > Len(ms) THEN [st |-> st, methods |-> methods, err |-> <<>>]
       ELSE Bind(parseMethod(pk, st, ms[i]), Rest)

\* [st, s, err]
parseService(pk, st, decl) ==
    LET Service(r) == [st |-> r.st, s |-> [Name |-> decl.name, Methods |-> r.methods], err |-> r.err]
    IN Bind(parseMethods(pk, st, decl.methods, 1, <<>>), Service)

\* The interface names that occur, in the order of Go's string comparison.
ServiceNames == <<"Echo", "Greeter", "Ignorer", "Welcomer">>
NameRank(name) == CHOOSE i \in 1..Len(ServiceNames) : ServiceNames[i] = name

\* sort.Slice(p.def.Services, by Name): the orders it can leave the services in.  The
\* sort is not stable, so services of one name can end in any order.
RECURSIVE SortServices(_)
SortServices(svcs) ==
    IF Len(svcs) <= 1 THEN {svcs}
    ELSE LET least == {i \in 1..Len(svcs) :
                         \A j \in 1..Len(svcs) : NameRank(svcs[i].Name) <= NameRank(svcs[j].Name)}
             without(i) == [j \in 1..(Len(svcs) - 1) |-> IF j < i THEN svcs[j] ELSE svcs[j + 1]]
         IN UNION {{<<svcs[i]>> \o rest : rest \in SortServices(without(i))} : i \in least}

\* A mutation of IsExcluded: objects are matched by name against the excluded identities.
IsExcludedByName(object, excludedObjectsTypeIDs) ==
    \E id \in excludedObjectsTypeIDs : id[Len(id)] = object.Name[1]

\* object.TypeID == excludedTypeID for some collected identity.
IsExcluded(object, excludedObjectsTypeIDs) == object.TypeID \in excludedObjectsTypeIDs

ErrorField ==
    [Name |-> "Error", NameLowerSnake |-> "error",
     Type |-> [ZeroFieldType EXCEPT !.TypeName = <<"string">>, !.JSType = "string"],
     OmitEmpty |-> TRUE, Metadata |-> NoMeta, Example |-> <<"something went wrong">>]

\* The Objects with the Error field added to the object p.def.Object finds for each name.
addOutputFields(objects, outputObjects) ==
    [i \in 1..Len(objects) |->
        IF objects[i].Name \in outputObjects /\ \A j \in 1..(i - 1) : objects[j].Name # objects[i].Name
        THEN [objects[i] EXCEPT !.Fields = Append(@, ErrorField)]
        ELSE objects[i]]

(***************************************************************************)
(* SpecParse: Parser.Parse over bounded packages                           *)
(***************************************************************************)
PStructs == {Named(LocalPkg, "A"), Named(LocalPkg, "Z")}

PFieldTypes ==
    PStructs \cup {SliceOf(t) : t \in PStructs} \cup {PointerTo(t) : t \in PStructs}
    \cup {Named(ExtPkg, "A"), Basic("string"), AnonStruct, PointerTo(AnonStruct)}

PSignatures ==
    {[params |-> <<i>>, results |-> <<o>>] :
        i \in PStructs, o \in PStructs \cup {PointerTo(Named(LocalPkg, "Z")), Named(ExtPkg, "A")}}
    \cup {[params |-> <<>>, results |-> <<Named(LocalPkg, "Z")>>],
          [params |-> <<Named(LocalPkg, "A")>>,
           results |-> <<Named(LocalPkg, "Z"), Named(LocalPkg, "Z")>>]}

VarNames == <<"F1", "F2", "F3", "F4", "F5", "F6">>
MethodNames == <<"M1", "M2", "M3", "M4", "M5", "M6">>

\* The fields of the declarations: every type exported and untagged, and a string field
\* that is not exported, one with a json tag and one with a malformed tag.
PFields ==
    {[typ |-> t, exported |-> TRUE, tag |-> "none"] : t \in PFieldTypes}
    \cup {[typ |-> Basic("string"), exported |-> FALSE, tag |-> "none"],
          [typ |-> Basic("string"), exported |-> TRUE, tag |-> "json"],
          [typ |-> Basic("string"), exported |-> TRUE, tag |-> "bad"]}

StructDecl(name, shapes) ==
    [name |-> name, kind |-> "struct",
     fields |-> [i \in 1..Len(shapes) |->
                    [name |-> VarNames[i], typ |-> shapes[i].typ,
                     exported |-> shapes[i].exported, tag |-> shapes[i].tag]],
     methods |-> <<>>]

InterfaceDecl(name, sigs) ==
    [name |-> name, kind |-> "interface", fields |-> <<>>,
     methods |-> [i \in 1..Len(sigs) |->
                     [name |-> MethodNames[i], params |-> sigs[i].params, results |-> sigs[i].results]]]

\* The local structs a struct holds by value: Go rejects a cycle of these.
HeldByValue(shapes) ==
    {shapes[i].typ.name : i \in {j \in 1..Len(shapes) :
        shapes[j].typ.kind = "named" /\ shapes[j].typ.pkg = LocalPkg
        /\ shapes[j].typ.slices = 0 /\ ~shapes[j].typ.ptr}}

ValidStructs(ta, tz) ==
    /\ "A" \notin HeldByValue(ta)
    /\ "Z" \notin HeldByValue(tz)
    /\ ~("Z" \in HeldByValue(ta) /\ "A" \in HeldByValue(tz))

PItemCounts == {c \in [1..4 -> 0..MaxPkgItems] : c[1] + c[2] + c[3] + c[4] <= MaxPkgItems}

ParseInit ==
    /\ \E c \in PItemCounts :
         \E ta \in [1..c[1] -> PFields], tz \in [1..c[2] -> PFields],
            sg \in [1..c[3] -> PSignatures], si \in [1..c[4] -> PSignatures] :
            /\ ValidStructs(ta, tz)
            /\ pkg = << StructDecl("A", ta), InterfaceDecl("Greeter", sg),
                        InterfaceDecl("Ignorer", si), StructDecl("Z", tz) >>
    /\ exclude \in {{}, {"Ignorer"}}
    /\ p = ParserFresh
    /\ pphase = "scan"
    /\ ZIdle /\ MIdle /\ CIdle

Scanning == pphase = "scan" /\ p.next <= Len(pkg)

\* case *types.Interface of the declaration loop.
ParseInterface ==
    /\ Scanning
    /\ pkg[p.next].kind = "interface"
    /\ \E r \in {parseService(pkg, p, pkg[p.next])} :
          LET decl == pkg[p.next]
          IN IF r.st.overflow
          THEN p' = r.st /\ pphase' = "crashed"
          ELSE IF r.err # <<>>
          THEN p' = [r.st EXCEPT !.err = r.err, !.parsed = r.st.Objects] /\ pphase' = "done"
          ELSE IF decl.name \in exclude
          THEN /\ p' = [r.st EXCEPT !.next = @ + 1,
                                    !.excludedObjectsTypeIDs =
                                        @ \cup {r.s.Methods[i].InputObject.TypeID : i \in 1..Len(r.s.Methods)}
                                          \cup {r.s.Methods[i].OutputObject.TypeID : i \in 1..Len(r.s.Methods)}]
               /\ pphase' = "scan"
          ELSE /\ p' = [r.st EXCEPT !.next = @ + 1, !.Services = Append(@, r.s)]
               /\ pphase' = "scan"
    /\ UNCHANGED <<pkg, exclude>>

\* case *types.Struct of the declaration loop: the error of parseObject is not looked at.
ParseStruct ==
    /\ Scanning
    /\ pkg[p.next].kind = "struct"
    /\ \E r \in {parseObject(pkg, p, [pkg |-> LocalPkg, name |-> pkg[p.next].name], 1)} :
          IF r.st.overflow
          THEN p' = r.st /\ pphase' = "crashed"
          ELSE /\ p' = [r.st EXCEPT !.next = @ + 1,
                                    !.dropped = IF r.err # <<>> THEN @ \cup {r.err} ELSE @]
               /\ pphase' = "scan"
    /\ UNCHANGED <<pkg, exclude>>

\* After the loop: remove excluded objects, sort the services, add the output fields.
ParseFinish ==
    /\ pphase = "scan"
    /\ p.next > Len(pkg)
    /\ LET nonExcludedObjects ==
               SelectSeq(p.Objects, LAMBDA object : ~IsExcluded(object, p.excludedObjectsTypeIDs))
       IN \E sorted \in SortServices(p.Services) :
             p' = [p EXCEPT !.parsed = p.Objects,
                            !.declared = p.Services,
                            !.Services = sorted,
                            !.Objects = addOutputFields(nonExcludedObjects, p.outputObjects)]
    /\ pphase' = "done"
    /\ UNCHANGED <<pkg, exclude>>

ParseNext ==
    \/ ParseInterface /\ UNCHANGED <<zvars, mvars, cvars>>
    \/ ParseStruct /\ UNCHANGED <<zvars, mvars, cvars>>
    \/ ParseFinish /\ UNCHANGED <<zvars, mvars, cvars>>

SpecParse == ParseInit /\ [][ParseNext]_vars

(***************************************************************************)
(* What the parser's claims speak of                                       *)
(***************************************************************************)
Returned == pphase = "done"
Succeeded == pphase = "done" /\ p.err = <<>>

Interfaces(pk) == {pk[i] : i \in {j \in 1..Len(pk) : pk[j].kind = "interface"}}
Structs(pk) == {pk[i] : i \in {j \in 1..Len(pk) : pk[j].kind = "struct"}}

UniqueNames(objects) ==
    \A i, j \in 1..Len(objects) : objects[i].Name = objects[j].Name => i = j

\* C5: after a successful Parse no two entries of Definition.Objects have the same name.
C5_UniqueObjectNames == Succeeded => UniqueNames(p.Objects)

\* C6: the Type Resolver terminates: registration never recurses without end.
C6_ResolverTerminates == pphase # "crashed" /\ ~p.overflow

\* The input and output type identities of the methods of the excluded interfaces.
ExcludedTypeIDs(pk, excl) ==
    UNION {{ResolvedFieldType(d.methods[i].params[1]).TypeID : i \in 1..Len(d.methods)}
           \cup {ResolvedFieldType(d.methods[i].results[1]).TypeID : i \in 1..Len(d.methods)} :
           d \in {e \in Interfaces(pk) : e.name \in excl}}

\* The declared fields of an object: its fields without a trailing synthetic Error field.
DeclaredFields(object) ==
    IF Len(object.Fields) > 0 /\ object.Fields[Len(object.Fields)] = ErrorField
    THEN SubSeq(object.Fields, 1, Len(object.Fields) - 1)
    ELSE object.Fields

\* C7: after a successful Parse the services are exactly the interface declarations not
\* named in the exclusion list, and the objects are the registered objects, in their
\* order, without exactly those whose type identity is the input or output type
\* identity of a method of an excluded interface.
C7_Exclusion ==
    Succeeded =>
        LET ids == ExcludedTypeIDs(pkg, exclude)
            kept == SelectSeq(p.parsed, LAMBDA o : o.TypeID \notin ids)
        IN /\ \A i \in 1..Len(p.Services) : p.Services[i].Name \notin exclude
           /\ {p.Services[i].Name : i \in 1..Len(p.Services)}
                 = {d.name : d \in {e \in Interfaces(pkg) : e.name \notin exclude}}
           /\ Len(p.Services) = Cardinality({e \in Interfaces(pkg) : e.name \notin exclude})
           /\ Len(p.Objects) = Len(kept)
           /\ \A i \in 1..Len(kept) :
                 /\ p.Objects[i].TypeID = kept[i].TypeID
                 /\ p.Objects[i].Name = kept[i].Name
                 /\ DeclaredFields(p.Objects[i]) = kept[i].Fields

\* A successful Parse that excluded Ignorer, removed an object that a method of Greeter
\* uses too, and kept another object.
C7_Witness ==
    /\ Succeeded /\ exclude = {"Ignorer"}
    /\ Len(p.Objects) >= 1 /\ Len(p.Objects) < Len(p.parsed)
    /\ \E i \in 1..Len(p.Services) : \E k \in 1..Len(p.Services[i].Methods) :
          p.Services[i].Methods[k].OutputObject.TypeID \in ExcludedTypeIDs(pkg, exclude)

\* The object is the struct that the method's result type names.
IsOutputOf(object, method) ==
    /\ method.OutputObject.IsObject
    /\ removePackagePrefix(method.OutputObject.CleanObjectName) = object.Name
    /\ object.Imported <=> method.OutputObject.Package # ""

IsOutput(object) ==
    \E i \in 1..Len(p.Services) : \E k \in 1..Len(p.Services[i].Methods) :
       IsOutputOf(object, p.Services[i].Methods[k])

ErrorFieldPlaces(object) == {i \in 1..Len(object.Fields) : object.Fields[i] = ErrorField}

\* C8: after a successful Parse an object that is the output type of a method has exactly
\* one synthetic Error field, after its declared fields; any other object has none.
C8_ErrorField ==
    Succeeded =>
        \A i \in 1..Len(p.Objects) :
           IF IsOutput(p.Objects[i])
           THEN ErrorFieldPlaces(p.Objects[i]) = {Len(p.Objects[i].Fields)}
           ELSE ErrorFieldPlaces(p.Objects[i]) = {}

BadArity(pk) ==
    \E d \in Interfaces(pk) : \E i \in 1..Len(d.methods) :
       Len(d.methods[i].params) # 1 \/ Len(d.methods[i].results) # 1

\* C9: when a method of any interface declaration, excluded or not, has other than one
\* parameter or other than one result, Parse ends with an error.
C9_ArityError == (Returned /\ BadArity(pkg)) => p.err # <<>>

\* Parse returned the signature error for a method of the excluded interface.
C9_Witness ==
    /\ Returned /\ exclude = {"Ignorer"}
    /\ \A i \in 1..Len(Decl(pkg, "Greeter").methods) :
          Len(Decl(pkg, "Greeter").methods[i].params) = 1
          /\ Len(Decl(pkg, "Greeter").methods[i].results) = 1
    /\ BadArity(pkg)
    /\ p.err = <<InvalidSignature>>

AnonField(pk) ==
    \E d \in Structs(pk) : \E i \in 1..Len(d.fields) : d.fields[i].typ.kind = "anon"

\* C10: Parse of a package with a field of an anonymous struct type, and with no
\* signature error to report before it, returns the "nested structs not supported" error.
C10_NestedStructError ==
    (Returned /\ AnonField(pkg) /\ ~BadArity(pkg)) => NestedStructs \in Range(p.err)

InvalidStruct(pk) ==
    \E d \in Structs(pk) : \E i \in 1..Len(d.fields) :
       ~d.fields[i].exported \/ d.fields[i].typ.kind = "anon" \/ d.fields[i].tag = "bad"

\* C11: when a top-level struct declaration has a field that is not exported, a field of
\* an anonymous struct type or a malformed tag, Parse ends with an error.
C11_InvalidStructError == (Returned /\ InvalidStruct(pkg)) => p.err # <<>>

(***************************************************************************)
(* Comments: extractCommentMetadata                                        *)
(*                                                                         *)
(* A comment is a sequence of characters, each a one-character string.     *)
(***************************************************************************)
MaxLines == 3        \* lines of a comment handed to extractCommentMetadata

JNum(digits) == [t |-> "number", b |-> FALSE, s |-> digits, a |-> <<>>]

\* unicode.IsSpace over the characters that occur.
IsSpace(c) == c \in {" ", "\t", "\n", "\r"}

\* strings.TrimSpace.
TrimSpace(str) ==
    LET solid == {i \in 1..Len(str) : ~IsSpace(str[i])}
    IN IF solid = {} THEN <<>>
       ELSE SubSeq(str, CHOOSE i \in solid : \A j \in solid : i <= j,
                        CHOOSE i \in solid : \A j \in solid : i >= j)

\* A mutation of Index: the last place of sep in str.
IndexLast(str, sep) ==
    LET at == {i \in 1..(Len(str) - Len(sep) + 1) : SubSeq(str, i, i + Len(sep) - 1) = sep}
    IN IF at = {} THEN 0 ELSE CHOOSE i \in at : \A j \in at : i >= j

\* strings.Index: the first place of sep in str, 0 when there is none.
Index(str, sep) ==
    LET at == {i \in 1..(Len(str) - Len(sep) + 1) : SubSeq(str, i, i + Len(sep) - 1) = sep}
    IN IF at = {} THEN 0 ELSE CHOOSE i \in at : \A j \in at : i <= j

\* bufio.ScanLines: the lines of str, without their end-of-line marker; a last line
\* without a newline is a line, nothing after the last newline is not.
RECURSIVE ScanLines(_)
ScanLines(str) ==
    LET dropCR(line) == IF Len(line) > 0 /\ line[Len(line)] = "\r"
                        THEN SubSeq(line, 1, Len(line) - 1) ELSE line
        nl == Index(str, <<"\n">>)
    IN IF str = <<>> THEN <<>>
       ELSE IF nl = 0 THEN <<dropCR(str)>>
       ELSE <<dropCR(SubSeq(str, 1, nl - 1))>> \o ScanLines(SubSeq(str, nl + 1, Len(str)))

\* strings.Join.
RECURSIVE Join(_, _)
Join(elems, sep) ==
    IF elems = <<>> THEN <<>>
    ELSE IF Len(elems) = 1 THEN elems[1]
    ELSE elems[1] \o sep \o Join(Tail(elems), sep)

ColonSpace == <<":", " ">>

\* A mutation of MatchString: a colon is enough.
MatchStringColon(line) == \E i \in 1..Len(line) : line[i] = ":"

\* metadataCommentRegex `^.*: .*` on a line: the line holds a colon and a space after it.
MatchString(line) == Index(line, ColonSpace) # 0

\* json.Unmarshal into interface{} of the texts that occur: a number, a string without
\* escapes, true, false and null; anything else is a syntax error.
Unmarshal(value) ==
    IF value # <<>> /\ \A i \in 1..Len(value) : value[i] = "1"
    THEN [ok |-> TRUE, val |-> JNum(value)]
    ELSE IF Len(value) >= 2 /\ value[1] = "\"" /\ value[Len(value)] = "\""
            /\ \A i \in 2..(Len(value) - 1) : value[i] \notin {"\"", "\\", "\t", "\n", "\r"}
    THEN [ok |-> TRUE, val |-> JStr(SubSeq(value, 2, Len(value) - 1))]
    ELSE IF value = <<"t", "r", "u", "e">> THEN [ok |-> TRUE, val |-> JTrue]
    ELSE IF value = <<"f", "a", "l", "s", "e">> THEN [ok |-> TRUE, val |-> JFalse]
    ELSE IF value = <<"n", "u", "l", "l">> THEN [ok |-> TRUE, val |-> JNull]
    ELSE [ok |-> FALSE, val |-> JNull]

\* A mutation of SetKey: a key that is already there keeps its value.
SetKeyFirstWins(metadata, key, val) ==
    [k \in DOMAIN metadata \cup {key} |-> IF k \in DOMAIN metadata THEN metadata[k] ELSE val]

\* metadata[key] = val.
SetKey(metadata, key, val) ==
    [k \in DOMAIN metadata \cup {key} |-> IF k = key THEN val ELSE metadata[k]]

RECURSIVE ExtractFrom(_, _, _, _)

\* A mutation of ExtractFrom: a value that does not parse ends the scan.
ExtractFromUntilBadValue(scanned, i, metadata, lines) ==
    IF i > Len(scanned)
    THEN [metadata |-> metadata, comment |-> Join(lines, <<"\n">>), err |-> <<>>]
    ELSE LET line == TrimSpace(scanned[i])
             at == Index(line, ColonSpace)
             decoded == Unmarshal(TrimSpace(SubSeq(line, at + 2, Len(line))))
         IN IF MatchString(line)
            THEN IF ~decoded.ok
                 THEN [metadata |-> metadata, comment |-> Join(lines, <<"\n">>), err |-> <<>>]
                 ELSE ExtractFrom(scanned, i + 1,
                                  SetKey(metadata, SubSeq(line, 1, at - 1), decoded.val), lines)
            ELSE IF line = <<>> THEN ExtractFrom(scanned, i + 1, metadata, lines)
            ELSE ExtractFrom(scanned, i + 1, metadata, Append(lines, line))

\* The scan loop of extractCommentMetadata from line i on.
ExtractFrom(scanned, i, metadata, lines) ==
    IF i > Len(scanned)
    THEN [metadata |-> metadata, comment |-> Join(lines, <<"\n">>), err |-> <<>>]
    ELSE LET line == TrimSpace(scanned[i])
             at == Index(line, ColonSpace)
             key == SubSeq(line, 1, at - 1)
             value == TrimSpace(SubSeq(line, at + 2, Len(line)))
             decoded == Unmarshal(value)
         IN IF MatchString(line)
            THEN IF line = <<>>
                 THEN [metadata |-> metadata, comment |-> Join(lines, <<"\n">>), err |-> <<>>]
                 ELSE IF ~decoded.ok THEN ExtractFrom(scanned, i + 1, metadata, lines)
                 ELSE ExtractFrom(scanned, i + 1, SetKey(metadata, key, decoded.val), lines)
            ELSE IF line = <<>> THEN ExtractFrom(scanned, i + 1, metadata, lines)
            ELSE ExtractFrom(scanned, i + 1, metadata, Append(lines, line))

\* A mutation of extractCommentMetadata: the metadata lines stay in the returned comment.
extractCommentMetadataKeepLines(comment) ==
    [ExtractFrom(ScanLines(comment), 1, NoMeta, <<>>) EXCEPT !.comment = TrimSpace(comment)]

\* [metadata, comment, err]
extractCommentMetadata(comment) == ExtractFrom(ScanLines(comment), 1, NoMeta, <<>>)

(***************************************************************************)
(* SpecComment: extractCommentMetadata over bounded comments               *)
(***************************************************************************)
\* The lines comments are made of: blank, free text, metadata with values that parse and
\* values that do not, colons without a space, a colon-space inside the value.
CommentLines ==
    { <<>>,
      <<" ", "\t">>,
      <<" ", "a", " ", "b", " ">>,
      <<"a", ":", "b">>,
      <<"k", ":">>,
      <<"k", ":", " ">>,
      <<"k", ":", " ", "1">>,
      <<"\t", "k", ":", " ", " ", "1", "1", "\r">>,
      <<"j", ":", " ", "t", "r", "u", "e">>,
      <<"k", ":", " ", "\"", "a", ":", " ", "b", "\"">>,
      <<"k", ":", " ", "a", ",", " ", "b">>,
      <<"j", ":", " ", "1", ":", " ", "1">>,
      <<"a", " ", "k", ":", " ", "1">>,
      <<":", " ", "1">> }

CommentInit ==
    /\ \E n \in 0..MaxLines : \E ls \in [1..n -> CommentLines] :
          \E last \in {<<>>, <<"\n">>} : ccomment = Join(ls, <<"\n">>) \o last
    /\ cres = <<>>
    /\ cphase = "ready"
    /\ ZIdle /\ MIdle /\ PIdle

\* extractCommentMetadata(comment).
Extract ==
    /\ cphase = "ready"
    /\ cres' = <<extractCommentMetadata(ccomment)>>
    /\ cphase' = "extracted"
    /\ UNCHANGED ccomment

\* extractCommentMetadata of the comment it returned.
ExtractAgain ==
    /\ cphase = "extracted"
    /\ cres' = Append(cres, extractCommentMetadata(cres[1].comment))
    /\ cphase' = "again"
    /\ UNCHANGED ccomment

CommentNext ==
    \/ Extract /\ UNCHANGED <<zvars, mvars, pvars>>
    \/ ExtractAgain /\ UNCHANGED <<zvars, mvars, pvars>>

SpecComment == CommentInit /\ [][CommentNext]_vars

(***************************************************************************)
(* What the comment claims speak of                                        *)
(***************************************************************************)
Extracted == cphase \in {"extracted", "again"}

\* The text between newlines, whitespace at both ends removed.
RECURSIVE SplitNewlines(_)
SplitNewlines(str) ==
    LET nls == {i \in 1..Len(str) : str[i] = "\n"}
        nl == CHOOSE i \in nls : \A j \in nls : i <= j
    IN IF nls = {} THEN <<TrimSpace(str)>>
       ELSE <<TrimSpace(SubSeq(str, 1, nl - 1))>> \o SplitNewlines(SubSeq(str, nl + 1, Len(str)))

\* The non-blank lines of a comment, trimmed, in order.
TextOf(str) == SelectSeq(SplitNewlines(str), LAMBDA line : line # <<>>)

\* The places of a colon with a space after it.
ColonSpaces(line) == {i \in 1..(Len(line) - 1) : line[i] = ":" /\ line[i + 1] = " "}
IsMetadataLine(line) == ColonSpaces(line) # {}
FirstColonSpace(line) == CHOOSE i \in ColonSpaces(line) : \A j \in ColonSpaces(line) : i <= j
KeyOf(line) == SubSeq(line, 1, FirstColonSpace(line) - 1)
ValueOf(line) == TrimSpace(SubSeq(line, FirstColonSpace(line) + 2, Len(line)))
Parses(line) == IsMetadataLine(line) /\ Unmarshal(ValueOf(line)).ok

\* C12: extractCommentMetadata returns no error; a line that matches the metadata pattern
\* and whose value is not valid JSON is not in the returned comment and adds no key, and
\* the lines after it are still taken: free text into the comment, parsed values into
\* the mapping.
C12_BadValueDropped ==
    Extracted =>
        LET r == cres[1]
            ls == TextOf(ccomment)
            out == Range(TextOf(r.comment))
        IN /\ r.err = <<>>
           /\ \A i \in 1..Len(ls) :
                 (IsMetadataLine(ls[i]) /\ ~Parses(ls[i])) =>
                    /\ ls[i] \notin out
                    /\ KeyOf(ls[i]) \in DOMAIN r.metadata =>
                          \E j \in 1..Len(ls) : Parses(ls[j]) /\ KeyOf(ls[j]) = KeyOf(ls[i])
                    /\ \A j \in (i + 1)..Len(ls) :
                          /\ ~IsMetadataLine(ls[j]) => ls[j] \in out
                          /\ Parses(ls[j]) => KeyOf(ls[j]) \in DOMAIN r.metadata

\* A line whose value does not parse, then free text and a line whose value parses.
C12_Witness ==
    /\ cphase = "extracted"
    /\ LET ls == TextOf(ccomment)
       IN /\ Len(ls) = 3
          /\ IsMetadataLine(ls[1]) /\ ~Parses(ls[1])
          /\ ~IsMetadataLine(ls[2]) /\ Parses(ls[3])
          /\ KeyOf(ls[1]) # KeyOf(ls[3])
    /\ cres[1].comment # <<>> /\ cres[1].metadata # NoMeta

\* C13: the returned comment is the trimmed non-blank lines of the input that do not match
\* the metadata pattern, in their order, joined by newlines.
C13_CommentText ==
    Extracted =>
        LET kept == SelectSeq(TextOf(ccomment), LAMBDA line : ~IsMetadataLine(line))
            lines == ScanLines(cres[1].comment)
        IN /\ cres[1].comment = Join(kept, <<"\n">>)
           /\ \A i \in 1..Len(lines) :
                 lines[i] # <<>> /\ TrimSpace(lines[i]) = lines[i] /\ ~IsMetadataLine(lines[i])

\* Free text that needs trimming, a blank line and a metadata line.
C13_Witness ==
    /\ cphase = "extracted"
    /\ Len(ScanLines(cres[1].comment)) = 1
    /\ Len(ScanLines(ccomment)) = 3
    /\ \E i, j, k \in 1..Len(ScanLines(ccomment)) :
          LET raw == ScanLines(ccomment)
          IN /\ TrimSpace(raw[i]) = <<>>
             /\ IsMetadataLine(TrimSpace(raw[j]))
             /\ raw[k] # TrimSpace(raw[k]) /\ TrimSpace(raw[k]) # <<>> /\ ~IsMetadataLine(TrimSpace(raw[k]))

\* The value the lines give a key: that of the last line with this key that parses.
LastParsed(ls, key) ==
    LET with == {i \in 1..Len(ls) : Parses(ls[i]) /\ KeyOf(ls[i]) = key}
    IN ls[CHOOSE i \in with : \A j \in with : i >= j]

\* C14: the keys of the mapping are the texts before the first colon-space of the lines
\* whose remainder parses, and the value of a key is the decoded whole remainder of the
\* last such line.
C14_FirstColonSplit ==
    Extracted =>
        LET ls == TextOf(ccomment)
            md == cres[1].metadata
        IN /\ DOMAIN md = {KeyOf(ls[i]) : i \in {j \in 1..Len(ls) : Parses(ls[j])}}
           /\ \A key \in DOMAIN md : md[key] = Unmarshal(ValueOf(LastParsed(ls, key))).val

\* Two lines of one key that parse, the later with a colon-space inside its value, and
\* after them a line of that key that does not parse.
C14_Witness ==
    /\ cphase = "extracted"
    /\ LET ls == TextOf(ccomment)
       IN /\ Len(ls) = 3
          /\ Parses(ls[1]) /\ Parses(ls[2]) /\ IsMetadataLine(ls[3]) /\ ~Parses(ls[3])
          /\ KeyOf(ls[1]) = KeyOf(ls[2]) /\ KeyOf(ls[2]) = KeyOf(ls[3])
          /\ Cardinality(ColonSpaces(ls[2])) = 2
          /\ cres[1].metadata[KeyOf(ls[1])] = Unmarshal(ValueOf(ls[2])).val
          /\ Unmarshal(ValueOf(ls[2])).val # Unmarshal(ValueOf(ls[1])).val

\* C15: extractCommentMetadata of a comment it returned gives an empty mapping and the
\* same comment.
C15_Idempotent ==
    cphase = "again" => cres[2].metadata = NoMeta /\ cres[2].comment = cres[1].comment

\* The second extraction, after a first one that took metadata out and left two lines.
C15_Witness ==
    /\ cphase = "again"
    /\ cres[1].metadata # NoMeta
    /\ Len(ScanLines(cres[1].comment)) = 2
    /\ cres[1].comment # TrimSpace(ccomment)

\* A value as JSON text.
Marshal(val) ==
    IF val.t = "number" THEN val.s
    ELSE IF val.t = "string" THEN <<"\"">> \o val.s \o <<"\"">>
    ELSE IF val.t = "bool" THEN (IF val.b THEN <<"t", "r", "u", "e">> ELSE <<"f", "a", "l", "s", "e">>)
    ELSE <<"n", "u", "l", "l">>

MetadataLine(key, val) == key \o ColonSpace \o Marshal(val)

\* A line with the whitespace around its value normalized.
Normalized(line) ==
    IF IsMetadataLine(line) THEN KeyOf(line) \o ColonSpace \o ValueOf(line) ELSE line

\* What the returned comment and mapping give back as lines.
Rebuilt(r) ==
    Range(TextOf(r.comment)) \cup {MetadataLine(key, r.metadata[key]) : key \in DOMAIN r.metadata}

MaxPackages == 2     \* packages the patterns of one Parse load

SortNames == <<"Echo", "Greeter", "Welcomer">>

\* The services of one package, in scope order; the comment tells the packages apart.
PackageServices(k, names) ==
    LET declared == SelectSeq(SortNames, LAMBDA n : n \in names)
    IN [i \in 1..Len(declared) |-> [Name |-> declared[i], Comment |-> k, Methods |-> <<>>]]

RECURSIVE Collected(_, _)
Collected(names, k) ==
    IF k > Len(names) THEN <<>> ELSE PackageServices(k, names[k]) \o Collected(names, k + 1)

\* The state at the end of the declaration loops.
SortInit ==
    /\ \E n \in 0..MaxPackages : \E names \in [1..n -> SUBSET Range(SortNames)] :
          p = [ParserFresh EXCEPT !.Services = Collected(names, 1)]
    /\ pkg = <<>>
    /\ exclude = {}
    /\ pphase = "scan"
    /\ ZIdle /\ MIdle /\ CIdle

SortNext == ParseFinish /\ UNCHANGED <<zvars, mvars, cvars>>

SpecSort == SortInit /\ [][SortNext]_vars

Place(svcs, s) == CHOOSE i \in 1..Len(svcs) : svcs[i] = s

\* C17: after Parse the services are in ascending order of name, and services of one
\* name are in the order they were declared in.
C17_SortedStable ==
    Returned =>
        /\ \A i, j \in 1..Len(p.Services) :
              i < j => NameRank(p.Services[i].Name) <= NameRank(p.Services[j].Name)
        /\ \A i, j \in 1..Len(p.declared) :
              (i < j /\ p.declared[i].Name = p.declared[j].Name) =>
                 Place(p.Services, p.declared[i]) < Place(p.Services, p.declared[j])

(***************************************************************************)
(* Examples: Definition.Example and Definition.ExampleJSON                 *)
(*                                                                         *)
(* An example value is [t, s, a, o]: t is "string" (s its text in          *)
(* segments), "empty" (struct{}{}), "array" (a its elements), "object"     *)
(* (o the map from key to value) or "nil".                                 *)
(***************************************************************************)
MaxExampleFields == 3   \* fields of the Definition an example is made from, over all objects
MaxExampleDepth == 4    \* nesting of Example before the call counts as diverging

NoKeys == [k \in {} |-> <<>>]
EString(segs) == [t |-> "string", s |-> segs, a |-> <<>>, o |-> NoKeys]
EEmpty == [t |-> "empty", s |-> <<>>, a |-> <<>>, o |-> NoKeys]
EArray(elems) == [t |-> "array", s |-> <<>>, a |-> elems, o |-> NoKeys]
EObject(map) == [t |-> "object", s |-> <<>>, a |-> <<>>, o |-> map]
ENil == [t |-> "nil", s |-> <<>>, a |-> <<>>, o |-> NoKeys]

\* obj[key] = val.
Put(obj, key, val) == [k \in DOMAIN obj \cup {key} |-> IF k = key THEN val ELSE obj[k]]

\* A mutation of SameObject: no object is taken for the one being expanded.
SameObjectNever(subobj, o) == FALSE

\* subobj.Name == o.Name.
SameObject(subobj, o) == subobj.Name = o.Name

RECURSIVE Example(_, _, _)
RECURSIVE ExampleFrom(_, _, _, _, _)

\* The field loop of Example from field i on.
ExampleFrom(d, o, i, obj, depth) ==
    LET field == o.Fields[i]
        key == field.NameLowerSnake
        Nested(r) ==
            IF r.overflow \/ r.err # <<>> THEN r
            ELSE ExampleFrom(d, o, i + 1,
                             Put(obj, key, IF field.Type.Multiple THEN EArray(<<EObject(r.obj)>>)
                                           ELSE EObject(r.obj)),
                             depth)
    IN IF i > Len(o.Fields) THEN [obj |-> obj, err |-> <<>>, overflow |-> FALSE]
       ELSE IF field.Type.IsObject
       THEN IF ~HasObject(d, field.Type.CleanObjectName)
            THEN ExampleFrom(d, o, i + 1, obj, depth)
            ELSE IF SameObject(Object(d, field.Type.CleanObjectName), o)
            THEN ExampleFrom(d, o, i + 1, Put(obj, key, EEmpty), depth)
            ELSE Bind(Example(d, Object(d, field.Type.CleanObjectName), depth + 1), Nested)
       ELSE ExampleFrom(d, o, i + 1,
                        Put(obj, key, IF field.Type.Multiple
                                      THEN EArray(<<field.Example, field.Example, field.Example>>)
                                      ELSE field.Example),
                        depth)

\* [obj, err, overflow]
Example(d, o, depth) ==
    IF depth > MaxExampleDepth THEN [obj |-> NoKeys, err |-> <<>>, overflow |-> TRUE]
    ELSE ExampleFrom(d, o, 1, NoKeys, depth)

\* The keys that occur, in the order of Go's string comparison.
ExampleKeys == <<"error", "f1", "f2", "f3", "f4", "f5", "f6">>

\* A mutation of SortedKeys: the keys in descending order.
SortedKeysDescending(map) ==
    LET up == SelectSeq(ExampleKeys, LAMBDA k : k \in DOMAIN map)
    IN [i \in 1..Len(up) |-> up[Len(up) + 1 - i]]

\* encoding/json writes the keys of a map in sorted order.
SortedKeys(map) == SelectSeq(ExampleKeys, LAMBDA k : k \in DOMAIN map)

RECURSIVE MarshalValue(_)
RECURSIVE MarshalAll(_, _, _)

\* The encodings of the elements from i on, joined by commas.
MarshalAll(elems, i, written) ==
    IF i > Len(elems) THEN written
    ELSE MarshalAll(elems, i + 1, written \o (IF i > 1 THEN <<",">> ELSE <<>>) \o MarshalValue(elems[i]))

\* json.Marshal of an example value, as the text's tokens.
MarshalValue(v) ==
    IF v.t = "string" THEN <<"\"">> \o v.s \o <<"\"">>
    ELSE IF v.t = "empty" THEN <<"{", "}">>
    ELSE IF v.t = "nil" THEN <<"null">>
    ELSE IF v.t = "array" THEN <<"[">> \o MarshalAll(v.a, 1, <<>>) \o <<"]">>
    ELSE LET keys == SortedKeys(v.o)
             RECURSIVE Members(_, _)
             Members(i, written) ==
                 IF i > Len(keys) THEN written
                 ELSE Members(i + 1, written \o (IF i > 1 THEN <<",">> ELSE <<>>)
                                     \o <<"\"", keys[i], "\"", ":">> \o MarshalValue(v.o[keys[i]]))
         IN <<"{">> \o Members(1, <<>>) \o <<"}">>

\* [obj, json, err, overflow]
ExampleJSON(d, o) ==
    LET Encode(r) == [obj |-> r.obj, err |-> r.err, overflow |-> r.overflow,
                      json |-> IF r.overflow \/ r.err # <<>> THEN <<>> ELSE MarshalValue(EObject(r.obj))]
    IN Bind(Example(d, o, 1), Encode)

(***************************************************************************)
(* SpecExample: ExampleJSON over bounded Definitions                       *)
(***************************************************************************)
ExampleObjectNames == << <<"A">>, <<"B">> >>

\* A field with the example parseField gave it.
WithExample(field, example) ==
    [k \in DOMAIN field \cup {"Example"} |-> IF k = "Example" THEN example ELSE field[k]]

StringSliceField == [StringField(NoMeta) EXCEPT !.Type.Multiple = TRUE, !.Type.MultipleTimes = 1]
ExampleValue == EString(<<"Hello there">>)
ExampleErrorField == [ErrorField EXCEPT !.Example = EString(@)]

\* Struct fields of the objects, of a missing and of an imported object; string fields
\* and fields of sequences of strings, with an example in their metadata and with the
\* default one of parseField ("text", and [nil] for the type name "[]string"); the
\* Error field.
ExampleFields ==
    {WithExample(ObjectField(t, NoMeta), ENil) :
        t \in Range(ExampleObjectNames) \cup {ZodMissing, <<"ext", "A">>}}
    \cup {WithExample(ObjectSliceField(t, NoMeta), EArray(<<ENil>>)) : t \in Range(ExampleObjectNames)}
    \cup {WithExample(StringField(NoMeta), ExampleValue),
          WithExample(StringField(NoMeta), EString(<<"text">>)),
          WithExample(StringSliceField, ExampleValue),
          WithExample(StringSliceField, EArray(<<ENil>>)),
          ExampleErrorField}

\* The fields of an object, named by their position; the Error field keeps its name.
NameExampleFields(fields) ==
    [i \in 1..Len(fields) |->
        IF fields[i] = ExampleErrorField THEN fields[i]
        ELSE [fields[i] EXCEPT !.NameLowerSnake = FieldNames[i]]]

ExampleFieldCounts == {c \in [1..2 -> 0..MaxExampleFields] : c[1] + c[2] <= MaxExampleFields}

ExampleInit ==
    /\ \E c \in ExampleFieldCounts :
         \E fa \in [1..c[1] -> ExampleFields], fb \in [1..c[2] -> ExampleFields] :
            zdef = << [Name |-> ExampleObjectNames[1], Fields |-> NameExampleFields(fa)],
                      [Name |-> ExampleObjectNames[2], Fields |-> NameExampleFields(fb)] >>
    /\ zstart = <<>>
    /\ zres = <<>>
    /\ zphase = "ready"
    /\ MIdle /\ PIdle /\ CIdle

\* ExampleJSON(o) for an object o of the Definition.
ExampleOf(i) ==
    /\ zphase = "ready"
    /\ zres' = ExampleJSON(zdef, zdef[i])
    /\ zstart' = zdef[i].Name
    /\ zphase' = "example"
    /\ UNCHANGED zdef

ExampleNext == \E i \in 1..Len(zdef) : ExampleOf(i) /\ UNCHANGED <<mvars, pvars, cvars>>

SpecExample == ExampleInit /\ [][ExampleNext]_vars

(***************************************************************************)
(* What the example claims speak of                                        *)
(***************************************************************************)
Started == Object(zdef, zstart)
ExampleReturned == zphase = "example" /\ ~zres.overflow

\* The fields of the started object whose struct type is the object itself, and those
\* whose struct type the Definition does not hold.
SelfFields == {f \in Range(Started.Fields) : f.Type.IsObject /\ f.Type.CleanObjectName = zstart}
MissingFields ==
    {f \in Range(Started.Fields) : f.Type.IsObject /\ ~HasObject(zdef, f.Type.CleanObjectName)}
OtherFields == Range(Started.Fields) \ (SelfFields \cup MissingFields)

\* C18: Example(o) does not expand a field whose struct type is o: when no field of o
\* names another object of the Definition the call returns, and whenever it returns
\* there is no error, every such field has the empty-object marker as its value, and a
\* field whose struct type is not in the Definition has no key in the result.
C18_SelfAndMissing ==
    zphase = "example" =>
        /\ (\A f \in OtherFields : ~f.Type.IsObject) => ~zres.overflow
        /\ ~zres.overflow =>
              /\ zres.err = <<>>
              /\ \A f \in SelfFields : zres.obj[f.NameLowerSnake] = EEmpty
              /\ \A f \in MissingFields : f.NameLowerSnake \notin DOMAIN zres.obj

\* Example returned for an object with a field of its own type, a sequence of its own
\* type and a field of a type the Definition does not hold.
C18_Witness ==
    /\ ExampleReturned
    /\ \E f \in SelfFields : ~f.Type.Multiple
    /\ \E f \in SelfFields : f.Type.Multiple
    /\ MissingFields # {}
    /\ zres.json = <<"{", "\"", "f1", "\"", ":", "{", "}", ",", "\"", "f3", "\"", ":", "{", "}", "}">>

\* An output object with one string field of multiplicity depth 1 that has an example in
\* its metadata, and the Error field.
GreetResponseLike ==
    /\ zphase = "example"
    /\ Started.Fields = NameExampleFields(<<WithExample(StringSliceField, ExampleValue), ExampleErrorField>>)

\* C19 as stated: the field's value is the one-element sequence of its example.
C19_AsStated ==
    GreetResponseLike =>
        zres.json = <<"{", "\"", "error", "\"", ":", "\"", "something went wrong", "\"", ",",
                      "\"", "f1", "\"", ":", "[", "\"", "Hello there", "\"", "]", "}">>

\* C19: ExampleJSON of such an object is a JSON object with its keys in alphabetical
\* order, the error value "something went wrong" and, for the field, the sequence of
\* three copies of its example.
C19_ExampleJSON ==
    GreetResponseLike =>
        /\ zres.err = <<>> /\ ~zres.overflow
        /\ zres.json = <<"{", "\"", "error", "\"", ":", "\"", "something went wrong", "\"", ",",
                         "\"", "f1", "\"", ":", "[", "\"", "Hello there", "\"", ",",
                         "\"", "Hello there", "\"", ",", "\"", "Hello there", "\"", "]", "}">>

C19_Witness == GreetResponseLike /\ zres.obj["f1"] = EArray(<<ExampleValue, ExampleValue, ExampleValue>>)

(***************************************************************************)
(* What the exclude claim speaks of                                        *)
(***************************************************************************)
ExcludedFields(X) == {f \in Range(Object(zdef, X).Fields) : HasKey(f.Metadata, "exclude")}

\* The declarations of X in the builder.
DeclsOf(X) == {k \in 1..Len(zres.out) : zres.out[k].obj = X}

\* The number of merge calls in a text.
Merges(text) == Len(SelectSeq(text, LAMBDA t : t = Tok(".merge(")))

\* The fields of X with extend metadata and without exclude metadata.
MergedFields(X) ==
    SelectSeq(Object(zdef, X).Fields,
              LAMBDA f : HasKey(f.Metadata, "extend") /\ ~HasKey(f.Metadata, "exclude"))

\* C20: in a run that returns, no declaration of a generated object (base schema,
\* recursive type, public schema with its lazy extension) holds the name of a field of
\* that object with exclude metadata, and the merge chain of its public schema has one
\* merge call per field with extend metadata and without exclude metadata.
C20_ExcludedNowhere ==
    ZodReturned =>
        \A X \in {Y \in zres.generated : HasObject(zdef, Y)} :
            /\ \A f \in ExcludedFields(X) : \A k \in DeclsOf(X) :
                  Tok(f.NameLowerSnake) \notin Range(zres.out[k].text)
            /\ \A k \in Positions(zres.out, "public", X) :
                  Merges(zres.out[k].text) = Len(MergedFields(X))

(***************************************************************************)
(* SpecObject: the generator over one object with fields of every kind     *)
(* of body and metadata, and an object B without fields                    *)
(***************************************************************************)
MaxObjectFields == 2   \* fields of the object whose schema is generated

Meta(k, v) == [x \in {k} |-> v]
Meta2(k1, v1, k2, v2) == [x \in {k1, k2} |-> IF x = k1 THEN v1 ELSE v2]

OptionsOneTwo == JArr(<<JStr(<<"one">>), JStr(<<"two">>)>>)
OptionsMixed == JArr(<<JStr(<<"one">>), JNum(<<"1">>), JStr(<<"two">>)>>)
TypesString == JStr(<<"types", "String">>)
TypesUnknown == JStr(<<"types", "Nonsense">>)
NoPrefix == JStr(<<"Nonsense">>)

\* A field of type map[string][]elem.
MapSliceField(elem, md) == [MapField(elem, md) EXCEPT !.Type.Map.ElementIsMultiple = TRUE]

\* A field of the named type ext.A that is no struct.
NamedField(md) ==
    [StringField(md) EXCEPT !.Type.CleanObjectName = <<"ext", "A">>, !.Type.JSType = "ext.A"]

StringMetas ==
    {NoMeta,
     Meta("options", OptionsOneTwo), Meta("options", OptionsMixed), Meta("options", JArr(<<>>)),
     Meta("options", JNull), Meta("options", JStr(<<"one">>)),
     Meta("type", TypesString), Meta("type", TypesUnknown), Meta("type", NoPrefix),
     Meta("type", JTrue), Meta2("options", OptionsOneTwo, "type", TypesString),
     Meta2("options", JNull, "type", TypesString),
     Meta("exclude", JFalse), Meta("extend", JFalse),
     Meta("nullable", JTrue), Meta("nullable", JFalse), Meta("optional", JTrue),
     Meta("optional", JFalse), Meta("nullable", JStr(<<"yes">>)),
     Meta2("nullable", JTrue, "optional", JTrue)}

ObjectMetas ==
    {NoMeta, Meta("options", OptionsOneTwo), Meta("type", TypesString), Extended, Excluded,
     Meta("extend", JFalse), Meta("exclude", JFalse), ExcludedExtended,
     Meta("nullable", JTrue), Meta("optional", JFalse)}

ObjFields ==
    {StringField(md) : md \in StringMetas}
    \cup {ObjectField(t, md) : t \in {<<"A">>, <<"B">>}, md \in ObjectMetas}
    \cup {ObjectSliceField(<<"A">>, NoMeta), ObjectField(<<"ext", "B">>, Extended)}
    \cup {MapField(e, md) : e \in {<<"B">>, <<"string">>}, md \in {NoMeta, Meta("options", OptionsOneTwo)}}
    \cup {MapSliceField(e, NoMeta) : e \in {<<"B">>, <<"string">>}}
    \cup {NamedField(NoMeta)}

ObjectInit ==
    /\ \E n \in 0..MaxObjectFields : \E fa \in [1..n -> ObjFields] :
          zdef = << [Name |-> <<"A">>, Fields |-> NameFields(fa)],
                    [Name |-> <<"B">>, Fields |-> <<>>] >>
    /\ zstart = <<>>
    /\ zres = ZodFresh
    /\ zphase = "ready"
    /\ MIdle /\ PIdle /\ CIdle

SpecObject == ObjectInit /\ [][ZodNext]_vars

(***************************************************************************)
(* What the claims about an object's schema text speak of                  *)
(***************************************************************************)
\* The object A, and the texts of its declarations in a run that returned.
ObjA == Object(zdef, <<"A">>)
GeneratedA == ZodReturned /\ <<"A">> \in zres.generated
TextOfKind(kind) == Flatten([k \in 1..Len(zres.out) |->
                               IF zres.out[k].obj = <<"A">> /\ zres.out[k].kind = kind
                               THEN zres.out[k].text ELSE <<>>])
SelfA == getRecursiveFields(ObjA.Fields, <<"A">>) # <<>>

\* The body of A: in its base schema when A refers to itself, else in its public schema.
BodyText == IF SelfA THEN TextOfKind("base") ELSE TextOfKind("public")
\* The extension of A's base schema by its self-referential fields, and the merge chain.
ExtensionText == IF SelfA THEN TextOfKind("public") ELSE <<>>
TypeText == TextOfKind("type")

\* Where the line of the field called name starts in a text, 0 if it has none.
LineStart(text, name) ==
    IF \E i \in 2..Len(text) : text[i] = Tok(name) /\ text[i - 1] = Tok("\t")
    THEN CHOOSE i \in 2..Len(text) : text[i] = Tok(name) /\ text[i - 1] = Tok("\t")
    ELSE 0

HasLine(text, name) == LineStart(text, name) > 0

\* What is written for the field between its name and the end of its line.
LineOf(text, name) ==
    LET i == LineStart(text, name)
        j == CHOOSE n \in (i + 1)..Len(text) :
                 text[n] = Tok("\n") /\ \A m \in (i + 1)..(n - 1) : text[m] # Tok("\n")
    IN SubSeq(text, i + 2, j - 2)

\* The fields writeZodBaseObject treats as ordinary.
Ordinary(f) ==
    /\ ~HasKey(f.Metadata, "exclude") /\ ~HasKey(f.Metadata, "extend")
    /\ removePackagePrefix(f.Type.CleanObjectName) # <<"A">>

\* The kind of body a line begins with.
BodyKind(line) ==
    IF line = <<>> THEN "none"
    ELSE IF line[1] = Tok("z.record(") THEN "record"
    ELSE IF line[1] = Tok("z.enum([") THEN "enum"
    ELSE IF line[1][1] = "ZodTypes." THEN "custom"
    ELSE IF line[1] = Tok("z.") THEN "primitive"
    ELSE "object"

\* The body the precedence asks for, options counting when present (anyValue) or when
\* not null.
RuleKind(f, anyValue) ==
    LET md == f.Metadata IN
    IF f.Type.IsObject THEN "object"
    ELSE IF f.Type.IsMap THEN "record"
    ELSE IF HasKey(md, "options") /\ (anyValue \/ md["options"].t # "null") THEN "enum"
    ELSE IF HasKey(md, "type") /\ md["type"].t = "string" THEN "custom"
    ELSE "primitive"

Precedence(anyValue) ==
    GeneratedA =>
        \A f \in {g \in Range(ObjA.Fields) : Ordinary(g)} :
            /\ HasLine(BodyText, f.NameLowerSnake)
            /\ BodyKind(LineOf(BodyText, f.NameLowerSnake)) = RuleKind(f, anyValue)

\* C21 as stated: the enum rule applies whenever options metadata is present.
C21_AsStated == Precedence(TRUE)

\* C21: in a run that returns, every ordinary field of the object has one line in the
\* body, and the line begins with the body of the first rule that matches: object
\* reference, record, enum when the options value is not null, custom scalar when the
\* type value is a string, primitive name otherwise.
C21_Precedence == Precedence(FALSE)

\* A returned run over an object-typed field with options metadata and a string field
\* with options and type metadata.
C21_Witness ==
    /\ GeneratedA
    /\ \E f \in Range(ObjA.Fields) :
          /\ Ordinary(f) /\ f.Type.IsObject /\ HasKey(f.Metadata, "options")
          /\ LineOf(BodyText, f.NameLowerSnake) = <<SchemaName(<<"B">>)>>
    /\ \E f \in Range(ObjA.Fields) :
          /\ Ordinary(f) /\ ~f.Type.IsObject /\ HasKey(f.Metadata, "options")
          /\ HasKey(f.Metadata, "type") /\ f.Metadata["options"].t = "array"
          /\ BodyKind(LineOf(BodyText, f.NameLowerSnake)) = "enum"

\* The ordinary map-typed fields of A.
RecordFields == {f \in Range(ObjA.Fields) : Ordinary(f) /\ f.Type.IsMap /\ ~f.Type.IsObject}

ArrayCount(line) == Len(SelectSeq(line, LAMBDA t : t = Tok(".array()")))

\* C23: in a run that returns, the line of a map field is a record of the key's
\* primitive name and of the element object's schema name when the element type names
\* an object of the Definition, of the element's primitive name otherwise, with one
\* array suffix when the element-multiplicity flag is set and none when it is not.
C23_Record ==
    GeneratedA =>
        \A f \in RecordFields :
            LET map == f.Type.Map
                line == LineOf(BodyText, f.NameLowerSnake)
                value == IF \E i \in 1..Len(zdef) : zdef[i].Name = map.ElementType
                         THEN <<camelizeDown(map.ElementType) \o <<"Schema">>>>
                         ELSE <<Tok("z."), Tok(map.ElementTypeTS), Tok("()")>>
            IN /\ line = <<Tok("z.record("), Tok("z."), Tok(map.KeyTypeTS), Tok("(), ")>> \o value
                         \o (IF map.ElementIsMultiple THEN <<Tok(".array()")>> ELSE <<>>)
                         \o <<Tok(")")>>
               /\ ArrayCount(line) = 1 <=> map.ElementIsMultiple

\* A returned run over a map to sequences of B, a map to B and a map to strings.
C23_Witness ==
    /\ GeneratedA
    /\ \E f \in RecordFields :
          f.Type.Map.ElementIsMultiple /\ f.Type.Map.ElementType = <<"B">>
          /\ ArrayCount(LineOf(BodyText, f.NameLowerSnake)) = 1
    /\ \E f \in RecordFields : ~f.Type.Map.ElementIsMultiple /\ f.Type.Map.ElementType = <<"string">>

\* The ordinary fields of A rendered from an options list.
EnumFields ==
    {f \in Range(ObjA.Fields) :
        /\ Ordinary(f) /\ ~f.Type.IsObject /\ ~f.Type.IsMap
        /\ HasKey(f.Metadata, "options") /\ f.Metadata["options"].t = "array"}

\* The quoted literals of a line, in order.
Literals(line) == SelectSeq(line, LAMBDA t : t[1] = "\"")

\* The options list with every entry (all) or every string entry as a quoted literal.
QuotedOptions(f, all) ==
    LET kept == SelectSeq(f.Metadata["options"].a, LAMBDA o : all \/ o.t = "string")
    IN [i \in 1..Len(kept) |-> <<"\"">> \o kept[i].s \o <<"\"">>]

EnumOf(all) ==
    GeneratedA =>
        \A f \in EnumFields :
            LET line == LineOf(BodyText, f.NameLowerSnake)
            IN /\ line[1] = Tok("z.enum([") /\ line[Len(line)] = Tok("])")
               /\ Literals(line) = QuotedOptions(f, all)
               /\ all => Len(Literals(line)) = Len(f.Metadata["options"].a)

\* C24 as stated: one quoted literal per entry of the options list.
C24_AsStated == EnumOf(TRUE)

\* C24: in a run that returns, a field with an options list is rendered as a closed set
\* of literals holding one quoted literal per entry of the list that is a string, in
\* list order; entries that are no strings have no literal.
C24_Enum == EnumOf(FALSE)

\* A returned run over a field with two string options and one with a number among them.
C24_Witness ==
    /\ GeneratedA
    /\ \E f \in EnumFields :
          f.Metadata["options"] = OptionsOneTwo
          /\ LineOf(BodyText, f.NameLowerSnake)
               = <<Tok("z.enum(["), <<"\"", "one", "\"">>, Tok(", "), <<"\"", "two", "\"">>, Tok("])")>>
    /\ \E f \in EnumFields :
          f.Metadata["options"] = OptionsMixed /\ Len(Literals(LineOf(BodyText, f.NameLowerSnake))) = 2

\* The custom scalar names the tests of getTypeNameForZod list.
ZodTypeNames ==
    {"String", "Int", "Int16", "Int64", "Date", "Timestamp", "Time", "UUID", "Bool", "JSON",
     "Float64", "RichText"}
InTable(name) == Len(name) = 2 /\ name[1] = "types" /\ name[2] \in ZodTypeNames
HasTypesPrefix(name) == Len(name) >= 2 /\ name[1] = "types"

\* The ordinary fields of A rendered through their type metadata.
CustomFields ==
    {f \in Range(ObjA.Fields) :
        /\ Ordinary(f) /\ ~f.Type.IsObject /\ ~f.Type.IsMap
        /\ ~(HasKey(f.Metadata, "options") /\ f.Metadata["options"].t # "null")
        /\ HasKey(f.Metadata, "type") /\ f.Metadata["type"].t = "string"}

\* A run that entered A.
EnteredA == zphase = "all" \/ (zphase = "one" /\ zstart = <<"A">>)

\* Custom scalars: a known name is written as its ZodTypes entry, an unknown one panics.
CustomScalar(Known(_)) ==
    /\ EnteredA => ((\E f \in CustomFields : ~Known(f.Metadata["type"].s)) => zres.panic)
    /\ GeneratedA =>
          \A f \in CustomFields :
              LET name == f.Metadata["type"].s
              IN /\ Known(name)
                 /\ LineOf(BodyText, f.NameLowerSnake)[1] = <<"ZodTypes.">> \o Tail(name)

\* C25 as stated: the known names are those of a fixed table.
C25_AsStated == CustomScalar(InTable)

\* C25: a custom scalar name that begins with "types." is written as "ZodTypes."
\* followed by the rest of the name, whatever the rest is, and a run over a field with
\* any other name is aborted by a panic: it emits no type for it and returns no error.
C25_CustomScalar == CustomScalar(HasTypesPrefix)

\* A returned run over types.String and types.Nonsense.
C25_Witness ==
    /\ GeneratedA
    /\ \E f \in CustomFields : LineOf(BodyText, f.NameLowerSnake) = << <<"ZodTypes.", "String">> >>
    /\ \E f \in CustomFields : LineOf(BodyText, f.NameLowerSnake) = << <<"ZodTypes.", "Nonsense">> >>

(***************************************************************************)
(* What the merge claim speaks of                                          *)
(***************************************************************************)
\* The schema names a text merges, in order.
MergeTargets(text) ==
    LET at == SelectSeq([i \in 1..Len(text) |-> i], LAMBDA i : text[i] = Tok(".merge("))
    IN [n \in 1..Len(at) |-> text[at[n] + 1]]

\* The fields of X with extend metadata, in declaration order.
ExtendFields(X) == SelectSeq(Object(zdef, X).Fields, LAMBDA f : HasKey(f.Metadata, "extend"))

\* The body of X: its base schema when X refers to itself, else its public schema.
BodyOf(X) ==
    LET kind == IF SelfReferential(zdef, X) THEN "base" ELSE "public"
    IN Flatten([k \in 1..Len(zres.out) |->
                  IF zres.out[k].obj = X /\ zres.out[k].kind = kind THEN zres.out[k].text ELSE <<>>])

\* C22: in a run that returns, the public schema of every generated object ends in one
\* merge call per field with extend metadata, in declaration order, each naming the
\* schema of the field's type without its package prefix; no such field has a line in
\* the object's body; and every merged schema is declared earlier in the output.
C22_MergeChain ==
    ZodReturned =>
        \A X \in {Y \in zres.generated : HasObject(zdef, Y)} :
            \A k \in Positions(zres.out, "public", X) :
                LET ext == ExtendFields(X)
                    merged == MergeTargets(zres.out[k].text)
                IN /\ merged = [i \in 1..Len(ext) |->
                                  <<"lc">> \o removePackagePrefix(ext[i].Type.CleanObjectName)
                                  \o <<"Schema">>]
                   /\ \A i \in 1..Len(ext) : ~HasLine(BodyOf(X), ext[i].NameLowerSnake)
                   /\ \A i \in 1..Len(ext) :
                         \E j \in 1..(k - 1) :
                            /\ zres.out[j].kind = "public"
                            /\ zres.out[j].obj = removePackagePrefix(ext[i].Type.CleanObjectName)

(***************************************************************************)
(* SpecType: Parse over a struct whose fields have every wrapping of a     *)
(* type                                                                    *)
(***************************************************************************)
MaxTypeFields == 2   \* fields of the struct Z

\* n sequence wrappers around t.
Slices(t, n) == [t EXCEPT !.slices = n]

\* string, the local struct A and the imported struct ext.A, bare, behind a pointer and
\* behind a pointer to a sequence, under up to MaxMultiple sequence wrappers.
WrappedTypes ==
    {Slices(w, n) :
        n \in 0..MaxMultiple,
        w \in UNION {{b, PointerTo(b), PointerToSliceOf(b)} :
                        b \in {Basic("string"), Named(LocalPkg, "A"), Named(ExtPkg, "A")}}}

TypeInit ==
    /\ \E n \in 1..MaxTypeFields : \E tz \in [1..n -> WrappedTypes] :
       \E sg \in {<<>>, <<[params |-> <<Named(LocalPkg, "A")>>, results |-> <<Named(LocalPkg, "Z")>>]>>} :
          pkg = << StructDecl("A", <<>>), InterfaceDecl("Greeter", sg),
                   StructDecl("Z", [i \in 1..n |-> [typ |-> tz[i], exported |-> TRUE, tag |-> "none"]]) >>
    /\ exclude = {}
    /\ p = ParserFresh
    /\ pphase = "scan"
    /\ ZIdle /\ MIdle /\ CIdle

SpecType == TypeInit /\ [][ParseNext]_vars

(***************************************************************************)
(* What the multiplicity claim speaks of                                   *)
(***************************************************************************)
\* The parsed fields of the struct Z with the types they were declared with.
ParsedZ ==
    LET at == {i \in 1..Len(p.Objects) : p.Objects[i].Name = <<"Z">>}
        z == p.Objects[CHOOSE i \in at : TRUE]
        decl == Decl(pkg, "Z")
    IN IF at = {} THEN {}
       ELSE {[field |-> z.Fields[i], typ |-> decl.fields[i].typ] : i \in 1..Len(decl.fields)}

\* The array suffixes the generator writes for a field.
Suffixes(field) == Len(SelectSeq(writeZodFieldModifiers(field).text, LAMBDA t : t = Tok(".array()")))

\* C26: after a successful Parse a field declared with N sequence wrappers and no
\* pointer has the multiplicity flag set exactly when N > 0, multiplicity depth N and
\* N array suffixes, and a field declared as a pointer to a sequence has the flag, the
\* depth and the array suffixes of the sequence it points to.
C26_Multiplicity ==
    Succeeded =>
        \A e \in ParsedZ :
            /\ ~e.typ.ptr =>
                  /\ e.field.Type.Multiple <=> e.typ.slices > 0
                  /\ e.field.Type.MultipleTimes = e.typ.slices
                  /\ Suffixes(e.field) = e.typ.slices
            /\ (e.typ.ptr /\ e.typ.ptrSlice /\ e.typ.slices = 0) =>
                  /\ e.field.Type.Multiple
                  /\ e.field.Type.MultipleTimes = 1
                  /\ Suffixes(e.field) = 1

(***************************************************************************)
(* What the registration-order claim speaks of                             *)
(***************************************************************************)
\* Where the objects of the package's struct called name stand in a list of objects.
Places(objects, name) == {i \in 1..Len(objects) : objects[i].Name = <<name>> /\ ~objects[i].Imported}

\* The types of the fields the declaration of a local object was written with.
FieldTypesOf(object) ==
    IF object.Imported THEN {}
    ELSE {Decl(pkg, object.Name[1]).fields[i].typ : i \in 1..Len(Decl(pkg, object.Name[1]).fields)}

\* The struct A of the package is declared first: nothing is registered before its
\* fields are resolved.
PointsOnlyAtZ ==
    /\ \E t \in FieldTypesOf([Imported |-> FALSE, Name |-> <<"A">>]) :
          t.kind = "named" /\ t.pkg = LocalPkg /\ t.name = "Z" /\ t.ptr
    /\ \A t \in FieldTypesOf([Imported |-> FALSE, Name |-> <<"A">>]) :
          (t.kind = "named" /\ t.name = "Z") => t.ptr

\* C27: when Parse returns, every object stands behind an object of the name of each
\* struct its fields hold without a pointer; and a field that points at a struct is
\* marked as an object type without registering the struct: the struct Z that the
\* first declaration A only points at is registered behind A.
C27_RegistrationOrder ==
    Returned =>
        /\ \A i \in 1..Len(p.parsed) :
              \A t \in FieldTypesOf(p.parsed[i]) :
                  (t.kind = "named" /\ ~t.ptr) => \E j \in 1..(i - 1) : p.parsed[j].Name = <<t.name>>
        /\ \A i \in 1..Len(p.parsed) :
              \A n \in 1..Len(p.parsed[i].Fields) :
                  LET t == Decl(pkg, p.parsed[i].Name[1]).fields[n].typ
                  IN (~p.parsed[i].Imported /\ t.kind = "named" /\ t.ptr) =>
                         p.parsed[i].Fields[n].Type.IsObject
        /\ PointsOnlyAtZ =>
              \A i \in Places(p.parsed, "A") : \A j \in Places(p.parsed, "Z") : i < j

\* A successful Parse of A { F1 ext.A; F2 *Z }: the imported struct, discovered through
\* F1, stands before A, and Z, only pointed at, behind it.
C27_Witness ==
    /\ Succeeded
    /\ PointsOnlyAtZ
    /\ Len(p.parsed) = 3
    /\ p.parsed[1].Imported /\ Places(p.parsed, "A") = {2} /\ Places(p.parsed, "Z") = {3}

\* C28: Example(o) returns for every Definition and every object o of it.
C28_ExampleTerminates == zphase = "example" => ~zres.overflow

\* The fields of A with extend metadata, in declaration order, and the public schema's
\* merge calls.
ExtendedA == SelectSeq(ObjA.Fields, LAMBDA f : HasKey(f.Metadata, "extend"))
MergedA == MergeTargets(TextOfKind("public"))

\* The field has a merge call: the call of its place among the extended fields names
\* the schema of its type.
InMergeChain(f) ==
    \E i \in 1..Len(ExtendedA) :
        /\ ExtendedA[i] = f /\ i <= Len(MergedA)
        /\ MergedA[i] = <<"lc">> \o removePackagePrefix(f.Type.CleanObjectName) \o <<"Schema">>

\* The number of places a field is rendered in: the body, the self-reference extension
\* (with its line in the recursive type), the merge chain.
PlacesOf(f) ==
    (IF HasLine(BodyText, f.NameLowerSnake) THEN 1 ELSE 0)
    + (IF HasLine(ExtensionText, f.NameLowerSnake) \/ HasLine(TypeText, f.NameLowerSnake) THEN 1 ELSE 0)
    + (IF InMergeChain(f) THEN 1 ELSE 0)

\* C29: in a run that returns, every field of the object without exclude metadata is
\* rendered in exactly one of the body, the self-reference extension and the merge
\* chain.
C29_ExactlyOnePlace ==
    GeneratedA =>
        \A f \in {g \in Range(ObjA.Fields) : ~HasKey(g.Metadata, "exclude")} : PlacesOf(f) = 1

\* The line of a field, in the body or in the self-reference extension.
RenderedLine(f) ==
    IF HasLine(BodyText, f.NameLowerSnake) THEN LineOf(BodyText, f.NameLowerSnake)
    ELSE IF HasLine(ExtensionText, f.NameLowerSnake) THEN LineOf(ExtensionText, f.NameLowerSnake)
    ELSE <<>>

IsTrue(md, key) == HasKey(md, key) /\ md[key] = JTrue

\* C30: in a run that returns, a field with the exclude key has no line in the body and
\* a field with the extend key has no line in the body and has its merge call,
\* whatever the values of the keys; and a field's line ends in the nullable modifier
\* exactly when its nullable value is the boolean true, and in the optional modifier
\* exactly when its optional value is the boolean true.
C30_FlagValues ==
    GeneratedA =>
        \A f \in Range(ObjA.Fields) :
            /\ HasKey(f.Metadata, "exclude") => ~HasLine(BodyText, f.NameLowerSnake)
            /\ HasKey(f.Metadata, "extend") => ~HasLine(BodyText, f.NameLowerSnake) /\ InMergeChain(f)
            /\ RenderedLine(f) # <<>> =>
                  /\ Tok(".nullable()") \in Range(RenderedLine(f)) <=> IsTrue(f.Metadata, "nullable")
                  /\ Tok(".optional()") \in Range(RenderedLine(f)) <=> IsTrue(f.Metadata, "optional")

\* A returned run over a field with exclude: false and a field with extend: false.
C30_Witness ==
    /\ GeneratedA
    /\ \E f \in Range(ObjA.Fields) :
          HasKey(f.Metadata, "exclude") /\ f.Metadata["exclude"] = JFalse
          /\ ~HasLine(BodyText, f.NameLowerSnake)
    /\ \E f \in Range(ObjA.Fields) :
          HasKey(f.Metadata, "extend") /\ f.Metadata["extend"] = JFalse /\ InMergeChain(f)

====
